---- MODULE Spec2Model ----
(***************************************************************************)
(* Unit of work of the mongo object-document mapper (src/mongo/mongo.go).  *)
(*                                                                         *)
(* The document manager holds a registry of metadata (metadatas), a buffer *)
(* of pending tasks keyed by document pointer (tasks) and a database       *)
(* handle.  The application owns the documents (heap): it calls Persist,   *)
(* Remove, Flush and FindID and may change scalar fields in between.       *)
(* Flush is a loop; one iteration (pop + doRemove / EnsureIndex+doPersist) *)
(* is one step of the model, because the pop order is the order of a Go    *)
(* map iteration and the loop need not terminate.                          *)
(*                                                                         *)
(* The driver (mgo) is an external collaborator: a collection is a map     *)
(* from _id to a record; UpsertId applies {"$set": m}; RemoveId answers    *)
(* ErrNotFound when no record is held under the id; FindId(..).One decodes *)
(* a record into a struct by the struct's bson keys; every call may fail.  *)
(***************************************************************************)
EXTENDS Integers, Sequences, FiniteSets, TLC

\* ---------------------------------------------------------------- bounds
\* NewObjectId is called at most MaxId times in a behaviour.
MaxId == 3
\* The per-flush counters of driver calls saturate at MaxCount.
MaxCount == 2
\* The driver fails (other than by ErrNotFound) at most MaxFaults times.
MaxFaults == 1

\* ------------------------------------------------------------- constants
Nil == "nil"
zeroObjectID == 0
ErrNotFound == "ErrNotFound"
\* errors a driver call can answer besides ErrNotFound
DriverErrors == {"ErrSocket"}
\* the values of a string field; "" is the zero value
Values == {"", "a"}

\* task constants
del == "del"
insert == "insert"
update == "update"

\* ------------------------------------------------------------------ maps
EmptyMap == [k \in {} |-> Nil]
Put(m, k, v) == [x \in DOMAIN m \cup {k} |-> IF x = k THEN v ELSE m[x]]
Drop(m, k) == [x \in DOMAIN m \ {k} |-> m[x]]
Min(a, b) == IF a < b THEN a ELSE b
\* the sequences of at most two elements of S
Seq2(S) == {<<>>} \cup {<<a>> : a \in S} \cup {<<a, b>> : a \in S, b \in S}

\* -------------------------------------------------------------- metadata
zeroRelation ==
  [load |-> "lazy", relation |-> "", targetDocument |-> "", cascade |-> "",
   mapped |-> "", mappedField |-> "", idStorageField |-> ""]

Relation(kind, target, cascade, mapped, mappedField) ==
  [load |-> "lazy", relation |-> kind, targetDocument |-> target,
   cascade |-> cascade, mapped |-> mapped, mappedField |-> mappedField,
   idStorageField |-> ""]

Field(name, key, omitempty, index, rel) ==
  [composite |-> FALSE, index |-> index, unique |-> FALSE, key |-> key,
   name |-> name, omitempty |-> omitempty, relation |-> rel, ignore |-> FALSE]

\* ID bson.ObjectId `bson:"_id"`
IdByKey == Field("ID", "_id", FALSE, FALSE, zeroRelation)
\* ID bson.ObjectId `odm:"id()"` : the key is the lowercased field name
IdByAnnotation == Field("ID", "id", FALSE, FALSE, zeroRelation)
\* Name string `bson:"name,omitempty" odm:"index()"`
NameField == Field("Name", "name", TRUE, TRUE, zeroRelation)
\* Rel []*T `odm:"referenceMany(targetDocument=..,cascade=..)"`
RelMany(target, cascade, mapped, mappedField) ==
  Field("Rel", "odm:relids", FALSE, FALSE,
        Relation("referenceMany", target, cascade, mapped, mappedField))
\* Rel *T `odm:"referenceOne(targetDocument=..,cascade=..)"`
RelOne(target, cascade, mapped, mappedField) ==
  Field("Rel", "odm:relid", FALSE, FALSE,
        Relation("referenceOne", target, cascade, mapped, mappedField))

\* the parameter load=eager of a relation
Eager(field) == [field EXCEPT !.relation.load = "eager"]

\* Friends []*User `odm:"referenceMany(targetDocument=users,mappedBy=FriendOf)"`
Friends ==
  Field("Friends", "odm:friendsids", FALSE, FALSE,
        Relation("referenceMany", "users", "", "mappedBy", "FriendOf"))
\* FriendOf []*User `odm:"referenceMany(targetDocument=users)"`
FriendOf ==
  Field("FriendOf", "odm:friendofids", FALSE, FALSE,
        Relation("referenceMany", "users", "", "", ""))

\* the metadata Register stores for a struct type
Metadata(collection, fields) ==
  [targetDocument |-> collection, idField |-> "ID",
   idKey |-> IF \E i \in DOMAIN fields : fields[i].key = "_id" THEN "_id" ELSE "",
   fields |-> fields]

hasRelation(field) == field.relation # zeroRelation

getFieldsWithRelation(meta) ==
  LET Test(f) == hasRelation(f) IN SelectSeq(meta.fields, Test)

metaHasRelation(meta) == \E i \in 1..Len(meta.fields) : hasRelation(meta.fields[i])

\* the first field whose key is "_id"
findIDField(meta) ==
  LET hits == {i \in 1..Len(meta.fields) : meta.fields[i].key = "_id"}
  IN IF hits = {} THEN [found |-> FALSE, field |-> IdByKey]
     ELSE [found |-> TRUE,
           field |-> meta.fields[CHOOSE i \in hits : \A j \in hits : i <= j]]

hasFieldWithIndex(meta) == \E i \in 1..Len(meta.fields) : meta.fields[i].index

getIndexes(meta) ==
  LET Test(f) == f.index
      fs == SelectSeq(meta.fields, Test)
  IN [i \in 1..Len(fs) |-> [Key |-> <<fs[i].key>>, Unique |-> fs[i].unique]]

hasFieldWithComposite(meta) == \E i \in 1..Len(meta.fields) : meta.fields[i].composite

getComposites(meta) ==
  LET Test(f) == f.composite
      fs == SelectSeq(meta.fields, Test)
  IN <<[Key |-> [i \in 1..Len(fs) |-> fs[i].key], Unique |-> TRUE]>>

\* ------------------------------------------------------ struct types
\* A struct type is its name and its fields in declaration order.  A struct
\* field is its name, the parts of its bson tag split at the commas (<<"">>
\* for no tag) and its odm tag: the tag "-" or the definitions the tokenizer
\* makes of it, each a name and a sequence of parameters.
StructField(name, bson, definitions) ==
  [name |-> name, bson |-> bson, odm |-> "", definitions |-> definitions]
Definition(name, parameters) == [Name |-> name, Parameters |-> parameters]
Parameter(key, value) == [Key |-> key, Value |-> value]
StructType(name, fields) == [type |-> name, kind |-> "ptr to struct", fields |-> fields]

\* strings.ToLower, on the names the struct types use
ToLower(str) ==
  CASE str = "ID" -> "id"
    [] str = "Name" -> "name"
    [] str = "Rel" -> "rel"
    [] str = "Id" -> "id"
    [] str = "Index" -> "index"
    [] str = "referenceOne" -> "referenceone"
    [] str = "referenceMany" -> "referencemany"
    [] str = "targetDocument" -> "targetdocument"
    [] str = "mappedBy" -> "mappedby"
    [] str = "inversedBy" -> "inversedby"
    [] str = "unknownParam" -> "unknownparam"
    [] OTHER -> str

ErrInvalidAnnotation == "ErrInvalidAnnotation"
ErrNotAPointer == "ErrNotAPointer"
ErrNotAstruct == "ErrNotAstruct"

\* the loop over the parameters of an index definition
RECURSIVE indexParameters(_, _, _)
indexParameters(MetaField, parameters, i) ==
  IF i > Len(parameters) THEN MetaField
  ELSE indexParameters(
         IF ToLower(parameters[i].Key) = "unique"
         THEN [MetaField EXCEPT !.unique = TRUE] ELSE MetaField,
         parameters, i + 1)

unknownParameterIgnored(relationOf, parameter) == [err |-> "ok", relation |-> relationOf]

\* the switch on the key of a parameter of a relation definition
relationParameter(relationOf, parameter) ==
  LET key == ToLower(parameter.Key)
      value == ToLower(parameter.Value)
      ok(r) == [err |-> "ok", relation |-> r]
  IN CASE key = "mappedby" ->
            ok([relationOf EXCEPT !.mapped = "mappedBy", !.mappedField = parameter.Value])
       [] key = "inversedby" ->
            ok([relationOf EXCEPT !.mapped = "inversedBy", !.mappedField = parameter.Value])
       [] key = "targetdocument" ->
            ok([relationOf EXCEPT !.targetDocument = parameter.Value])
       [] key = "cascade" ->
            ok(IF value \in {"persist", "remove", "all"}
               THEN [relationOf EXCEPT !.cascade = value] ELSE relationOf)
       [] key = "storeid" -> ok([relationOf EXCEPT !.idStorageField = parameter.Value])
       [] key = "load" ->
            ok(IF value = "eager" THEN [relationOf EXCEPT !.load = "eager"] ELSE relationOf)
       [] OTHER -> [err |-> ErrInvalidAnnotation, relation |-> relationOf]

\* the loop over the parameters of a relation definition: MetaField.relation
\* is assigned after each parameter
RECURSIVE relationParameters(_, _, _, _)
relationParameters(MetaField, relationOf, parameters, i) ==
  IF i > Len(parameters) THEN [err |-> "ok", MetaField |-> MetaField]
  ELSE LET r == relationParameter(relationOf, parameters[i])
       IN IF r.err # "ok" THEN [err |-> r.err, MetaField |-> MetaField]
          ELSE relationParameters([MetaField EXCEPT !.relation = r.relation],
                                  r.relation, parameters, i + 1)

\* the switch on the name of a definition; st is err, the metadata and the
\* field being compiled
definitionOf(st, structField, definition) ==
  LET name == ToLower(definition.Name)
  IN CASE name = "id" -> [st EXCEPT !.meta.idField = structField.name]
       [] name = "omitempty" -> [st EXCEPT !.MetaField.omitempty = TRUE]
       [] name = "index" ->
            [st EXCEPT !.MetaField =
               indexParameters([@ EXCEPT !.index = TRUE], definition.Parameters, 1)]
       [] name = "composite" -> [st EXCEPT !.MetaField.composite = TRUE]
       [] name \in {"referencemany", "referenceone"} ->
            LET many == name = "referencemany"
                relationOf == [zeroRelation EXCEPT
                               !.relation = IF many THEN "referenceMany" ELSE "referenceOne"]
                keyed == [st.MetaField EXCEPT
                            !.key = "odm:" \o ToLower(structField.name)
                                      \o (IF many THEN "ids" ELSE "id")]
                r == relationParameters(keyed, relationOf, definition.Parameters, 1)
            IN [st EXCEPT !.err = r.err, !.MetaField = r.MetaField]
       [] OTHER -> [st EXCEPT !.err = ErrInvalidAnnotation]

RECURSIVE definitionsOf(_, _, _, _)
definitionsOf(st, structField, definitions, i) ==
  IF i > Len(definitions) \/ st.err # "ok" THEN st
  ELSE definitionsOf(definitionOf(st, structField, definitions[i]), structField, definitions, i + 1)

\* the key of the field named by storeid: the first part of its bson tag,
\* its lowercased name, or "" when the struct has no such field
resolveKeyForField(Struct, name) ==
  LET hits == {i \in 1..Len(Struct.fields) : Struct.fields[i].name = name}
  IN IF hits = {} THEN ""
     ELSE LET f == Struct.fields[CHOOSE i \in hits : TRUE]
          IN IF Len(f.bson) > 0 /\ f.bson[1] # "" /\ f.bson[1] # "-"
             THEN f.bson[1] ELSE ToLower(f.name)

\* the body of the loop of getTypeMetadatas over the fields of the struct
typeField(st, Type, structField) ==
  LET parts == structField.bson
      key == IF Len(parts) > 0 THEN parts[1] ELSE ""
      MetaField0 == [composite |-> FALSE, index |-> FALSE, unique |-> FALSE,
                     key |-> IF key # "" THEN key ELSE ToLower(structField.name),
                     name |-> structField.name,
                     omitempty |-> Len(parts) > 1 /\ parts[2] = "omitempty",
                     relation |-> zeroRelation, ignore |-> FALSE]
      st0 == IF key = "_id"
             THEN [st EXCEPT !.meta.idField = structField.name, !.meta.idKey = "_id"]
             ELSE st
  IN IF key = "-" \/ structField.odm = "-" THEN st0
     ELSE LET st1 == definitionsOf([st0 EXCEPT !.MetaField = MetaField0], structField,
                                   structField.definitions, 1)
              MetaField1 == st1.MetaField
              MetaField2 == IF MetaField1.index /\ MetaField1.relation # zeroRelation
                            THEN [MetaField1 EXCEPT !.index = FALSE] ELSE MetaField1
              stored == IF MetaField2.relation.idStorageField # ""
                        THEN resolveKeyForField(Type, MetaField2.relation.idStorageField)
                        ELSE ""
              MetaField3 == IF stored # "" THEN [MetaField2 EXCEPT !.key = stored]
                            ELSE MetaField2
          IN IF st1.err # "ok" THEN st1
             ELSE [st1 EXCEPT !.meta.fields = Append(@, MetaField3)]

RECURSIVE typeFields(_, _, _)
typeFields(st, Type, i) ==
  IF i > Len(Type.fields) \/ st.err # "ok" THEN st
  ELSE typeFields(typeField(st, Type, Type.fields[i]), Type, i + 1)

\* getTypeMetadatas: the metadata of a struct type, or the error of its tags
getTypeMetadatas(Type) ==
  typeFields([err |-> "ok",
              meta |-> [targetDocument |-> "", idField |-> "", idKey |-> "",
                        fields |-> <<>>],
              MetaField |-> IdByKey],
             Type, 1)

\* the struct types the application declares
IdField == StructField("ID", <<"_id">>, <<>>)
\* type Doc struct { ID `bson:"_id"`; Name `bson:"name,omitempty" odm:"index()"` }
DocType ==
  StructType("Doc", <<IdField,
     StructField("Name", <<"name", "omitempty">>, <<Definition("index", <<>>)>>)>>)
\* a definition with a name that is not known: Name `odm:"embedded()"`
MisnamedType ==
  StructType("Misnamed", <<IdField,
     StructField("Name", <<"">>, <<Definition("embedded", <<>>)>>)>>)
\* a relation with a parameter that is not known:
\* Rel *Node `odm:"referenceOne(unknownParam=x)"`
MistypedType ==
  StructType("Mistyped", <<IdField,
     StructField("Rel", <<"">>,
        <<Definition("referenceOne", <<Parameter("targetDocument", "nodes"),
                                       Parameter("unknownParam", "x")>>)>>)>>)
\* the same relation on a field the bson tag ignores:
\* Rel *Node `bson:"-" odm:"referenceOne(unknownParam=x)"`
HiddenType ==
  StructType("Hidden", <<IdField,
     StructField("Rel", <<"-">>,
        <<Definition("referenceOne", <<Parameter("unknownParam", "x")>>)>>)>>)
\* a struct without an identifier: type Plain struct { Name string }
PlainType == StructType("Plain", <<StructField("Name", <<"">>, <<>>)>>)
\* a Doc handed to Register by value
DocValue == [DocType EXCEPT !.kind = "struct"]

\* the Go kind of a struct field, which isZero dispatches on
kindOf(field) ==
  IF field.relation.relation = "referenceMany" THEN "slice"
  ELSE IF field.relation.relation = "referenceOne" THEN "ptr"
  ELSE IF field.name = "ID" THEN "ObjectId"
  ELSE "string"

isZero(kind, value) ==
  IF kind = "slice" THEN Len(value) = 0
  ELSE IF kind = "ptr" THEN value = Nil
  ELSE IF kind = "ObjectId" THEN value = zeroObjectID
  ELSE value = ""

\* ------------------------------------------------------------ the worlds
\* A world is what the application set up before the first call: the types
\* it registered, its documents and the relation fields it wired.
Doc(type, rel) == [type |-> type, ID |-> zeroObjectID, Name |-> "", Rel |-> rel]

\* two documents of a type with a scalar field, no relation
WorldPlain ==
  [metadatas |-> [t \in {"Doc"} |-> Metadata("docs", <<IdByKey, NameField>>)],
   heap |-> [e \in {"e1", "e2"} |-> Doc("Doc", Nil)]]

\* a type whose identifier is declared by the id annotation
WorldAnnotated ==
  [metadatas |-> [t \in {"Tagged"} |-> Metadata("tagged", <<IdByAnnotation, NameField>>)],
   heap |-> [e \in {"e1"} |-> Doc("Tagged", Nil)]]

\* two owners cascade-persist to the same related document
WorldDiamond ==
  [metadatas |-> [t \in {"Node"} |->
      Metadata("nodes", <<IdByKey, RelMany("nodes", "persist", "", "")>>)],
   heap |-> [e \in {"e1", "e2", "e3"} |->
      Doc("Node", IF e = "e3" THEN <<>> ELSE <<"e3">>)]]

\* a cycle of cascade=all references
WorldCycle ==
  [metadatas |-> [t \in {"Node"} |->
      Metadata("nodes", <<IdByKey, RelOne("nodes", "all", "", "")>>)],
   heap |-> [e \in {"e1", "e2"} |-> Doc("Node", IF e = "e1" THEN "e2" ELSE "e1")]]

\* a document that refers to itself by a cascade=all reference
WorldSelf ==
  [metadatas |-> [t \in {"Node"} |->
      Metadata("nodes", <<IdByKey, RelOne("nodes", "all", "", "")>>)],
   heap |-> [e \in {"e1"} |-> Doc("Node", "e1")]]

\* a chain of cascade=remove references
WorldChain ==
  [metadatas |-> [t \in {"Node"} |->
      Metadata("nodes", <<IdByKey, RelOne("nodes", "remove", "", "")>>)],
   heap |-> [e \in {"e1", "e2"} |-> Doc("Node", IF e = "e1" THEN "e2" ELSE Nil)]]

\* an owner whose related type declares its identifier by the id annotation
WorldKids ==
  [metadatas |-> [t \in {"Owner", "Kid"} |->
      IF t = "Owner" THEN Metadata("owners", <<IdByKey, RelMany("kids", "all", "", "")>>)
      ELSE Metadata("kids", <<IdByAnnotation>>)],
   heap |-> [e \in {"e1", "e2"} |->
      IF e = "e1" THEN Doc("Owner", <<"e2">>) ELSE Doc("Kid", Nil)]]

\* an owner of two related documents, cascade=persist
WorldShelf ==
  [metadatas |-> [t \in {"Node"} |->
      Metadata("nodes", <<IdByKey, RelMany("nodes", "persist", "", "")>>)],
   heap |-> [e \in {"e1", "e2", "e3"} |->
      Doc("Node", IF e = "e1" THEN <<"e2", "e3">> ELSE <<>>)]]

\* Author.Rel []*Book `odm:"referenceMany(targetDocument=books,mappedBy=Rel,cascade=all)"`
\* Book.Rel *Author `odm:"referenceOne(targetDocument=authors)"`
WorldAuthor ==
  [metadatas |-> [t \in {"Author", "Book"} |->
      IF t = "Author"
      THEN Metadata("authors", <<IdByKey, RelMany("books", "all", "mappedBy", "Rel")>>)
      ELSE Metadata("books", <<IdByKey, RelOne("authors", "", "", "")>>)],
   heap |-> [e \in {"e1", "e2"} |->
      IF e = "e1" THEN Doc("Author", <<"e2">>) ELSE Doc("Book", "e1")]]

\* Book.Rel *Author `odm:"referenceOne(targetDocument=authors)"`: an author,
\* a book of that author and a book without an author
WorldBooks ==
  [metadatas |-> [t \in {"Author", "Book"} |->
      IF t = "Author"
      THEN Metadata("authors", <<IdByKey>>)
      ELSE Metadata("books", <<IdByKey, RelOne("authors", "", "", "")>>)],
   heap |-> [e \in {"e1", "e2", "e3"} |->
      IF e = "e1" THEN Doc("Author", Nil)
      ELSE Doc("Book", IF e = "e2" THEN "e1" ELSE Nil)]]

\* type Entry struct { ID `bson:"_id" odm:"composite()"`;
\*                     Name `bson:"name" odm:"index(unique);composite()"` }
EntryType ==
  StructType("Entry",
    <<StructField("ID", <<"_id">>, <<Definition("composite", <<>>)>>),
      StructField("Name", <<"name">>,
         <<Definition("index", <<Parameter("unique", "")>>),
           Definition("composite", <<>>)>>)>>)

\* an owner that cascade-persists to one related document
WorldParent ==
  [metadatas |-> [t \in {"Node"} |->
      Metadata("nodes", <<IdByKey, RelMany("nodes", "persist", "", "")>>)],
   heap |-> [e \in {"e1", "e2"} |->
      Doc("Node", IF e = "e1" THEN <<"e2">> ELSE <<>>)]]

\* two documents of a type with a unique index and a composite index
WorldEntry ==
  [metadatas |-> [t \in {"Entry"} |->
      [getTypeMetadatas(EntryType).meta EXCEPT !.targetDocument = "entries"]],
   heap |-> [e \in {"e1", "e2"} |-> Doc("Entry", Nil)]]

\* two documents whose reference to each other the application rewires
WorldLink ==
  [metadatas |-> [t \in {"Node"} |->
      Metadata("nodes", <<IdByKey, RelOne("nodes", "", "", "")>>)],
   heap |-> [e \in {"e1", "e2"} |-> Doc("Node", Nil)]]

\* a document that lists another document and itself, and is listed by the
\* other
WorldList ==
  [metadatas |-> [t \in {"Node"} |->
      Metadata("nodes", <<IdByKey, RelMany("nodes", "", "", "")>>)],
   heap |-> [e \in {"e1", "e2"} |->
      Doc("Node", IF e = "e1" THEN <<"e2", "e1">> ELSE <<"e1">>)]]

\* three users, each the friend of the next: e1 is a friend of e2, e2 of
\* e3 and e3 of e1
User(friends, friendOf) ==
  [type |-> "User", ID |-> zeroObjectID, Name |-> "",
   Friends |-> friends, FriendOf |-> friendOf]

WorldUsers ==
  [metadatas |-> [t \in {"User"} |-> Metadata("users", <<IdByKey, Friends, FriendOf>>)],
   heap |-> [e \in {"e1", "e2", "e3"} |->
      IF e = "e1" THEN User(<<"e3">>, <<"e2">>)
      ELSE IF e = "e2" THEN User(<<"e1">>, <<"e3">>)
      ELSE User(<<"e2">>, <<"e1">>)]]

\* two users, each the friend of the other
WorldPair ==
  [metadatas |-> [t \in {"User"} |-> Metadata("users", <<IdByKey, Friends, FriendOf>>)],
   heap |-> [e \in {"e1", "e2"} |->
      IF e = "e1" THEN User(<<"e2">>, <<"e2">>) ELSE User(<<"e1">>, <<"e1">>)]]

\* Back []*Node `odm:"referenceMany(targetDocument=nodes,mappedBy=Rel)"`
Back ==
  Field("Back", "odm:backids", FALSE, FALSE,
        Relation("referenceMany", "nodes", "", "mappedBy", "Rel"))

\* two documents that refer to each other by a load=eager reference, with
\* the lazy mapped side of that reference
WorldEager ==
  [metadatas |-> [t \in {"Node"} |->
      Metadata("nodes", <<IdByKey, Eager(RelOne("nodes", "", "", "")), Back>>)],
   heap |-> [e \in {"e1", "e2"} |->
      [type |-> "Node", ID |-> zeroObjectID, Name |-> "",
       Rel |-> IF e = "e1" THEN "e2" ELSE "e1", Back |-> <<>>]]]

\* one document with a scalar field
WorldSingle ==
  [metadatas |-> [t \in {"Doc"} |-> Metadata("docs", <<IdByKey, NameField>>)],
   heap |-> [e \in {"e1"} |-> Doc("Doc", Nil)]]

KeyWorlds == {WorldPlain, WorldCycle, WorldChain}
Worlds == KeyWorlds \cup {WorldAnnotated, WorldKids}

VARIABLES
  metadatas,   \* manager.metadatas: type -> metadata
  heap,        \* the application's documents: pointer -> struct
  tasks,       \* manager.tasks: pointer -> task
  database,    \* the driver's collections: <<collection, _id>> -> record
  indexes,     \* the indexes EnsureIndex created
  nextId,      \* the next value of bson.NewObjectId()
  pc,          \* "idle", or "flush" while Flush runs its loop
  byApp,       \* the pointers whose pending task was recorded by Persist/Remove
  last,        \* the last call of the application
  fl,          \* the record of the current or last Flush
  found,       \* what the last FindID returned
  faults       \* how many times the driver failed

vars == <<metadatas, heap, tasks, database, indexes, nextId, pc, byApp, last, fl, found,
          faults>>

\* ------------------------------------------------------- identity helpers
metaOf(h, document) == metadatas[h[document].type]

\* metadatas.setIDForValue: writes the field named meta.idField
setIDForValue(h, document, id) ==
  [h EXCEPT ![document][metaOf(h, document).idField] = id]

\* metadatas.getDocumentID: reads the field found by findIDField; the zero
\* id (and an error Persist ignores) when no field has the key "_id"
getDocumentID(h, document) ==
  LET idFields == findIDField(metaOf(h, document))
  IN IF ~idFields.found THEN zeroObjectID ELSE h[document][idFields.field.name]

\* bson.ObjectId.Valid: the id has 12 bytes; the zero id has none
Valid(id) == id # zeroObjectID

findMetadataByCollectionName(name) ==
  LET hits == {t \in DOMAIN metadatas : metadatas[t].targetDocument = name}
  IN IF hits = {} THEN [found |-> FALSE, meta |-> Metadata("", <<>>), type |-> ""]
     ELSE [found |-> TRUE, meta |-> metadatas[CHOOSE t \in hits : TRUE],
           type |-> CHOOSE t \in hits : TRUE]

\* ------------------------------------------------------------- projection
RECURSIVE structToMapFrom(_, _, _, _)
structToMapFrom(meta, value, i, result) ==
  IF i > Len(meta.fields) THEN result
  ELSE LET field == meta.fields[i]
       IN IF field.ignore \/ (field.omitempty /\ isZero(kindOf(field), value[field.name]))
          THEN structToMapFrom(meta, value, i + 1, result)
          ELSE IF hasRelation(field)
          THEN structToMapFrom(meta, value, i + 1, result)
          ELSE IF field.name = meta.idField
          THEN structToMapFrom(meta, value, i + 1, Put(result, "_id", value[field.name]))
          ELSE structToMapFrom(meta, value, i + 1, Put(result, field.key, value[field.name]))

structToMap(h, document) == structToMapFrom(metaOf(h, document), h[document], 1, EmptyMap)

stripID(Map) == Drop(Map, "_id")

\* Map["_id"]: the nil interface of a missing key holds no record either
MapID(Map) == IF "_id" \in DOMAIN Map THEN Map["_id"] ELSE zeroObjectID


\* ------------------------------------------------------------- the driver
\* Collection.UpsertId(id, {"$set": set}): the keys of set are written, the
\* other keys of an existing record are kept
UpsertId(db, collection, id, set) ==
  LET key == <<collection, id>>
      old == IF key \in DOMAIN db THEN db[key] ELSE EmptyMap
  IN Put(db, key, [k \in DOMAIN old \cup DOMAIN set |->
                     IF k \in DOMAIN set THEN set[k] ELSE old[k]])

\* what UpsertId can answer: a zero id cannot be encoded
UpsertIdAnswers(id) ==
  IF id = zeroObjectID THEN {"ErrInvalidObjectId"} ELSE {"ok"}

\* Collection.RemoveId(id)
RemoveId(db, collection, id) == Drop(db, <<collection, id>>)

\* what RemoveId can answer: ErrNotFound when no record is held under id
RemoveIdAnswers(db, collection, id) ==
  IF <<collection, id>> \in DOMAIN db THEN {"ok"} ELSE {ErrNotFound}

\* Collection.FindId(id).One(document): the record is decoded by the bson
\* keys of the struct, which are the keys of its fields without relation
RECURSIVE decodeFrom(_, _, _, _, _)
decodeFrom(meta, id, record, i, value) ==
  IF i > Len(meta.fields) THEN value
  ELSE LET field == meta.fields[i]
       IN IF hasRelation(field) \/ field.ignore
          THEN decodeFrom(meta, id, record, i + 1, value)
          ELSE IF field.key = "_id"
          THEN decodeFrom(meta, id, record, i + 1, [value EXCEPT ![field.name] = id])
          ELSE IF field.key \in DOMAIN record
          THEN decodeFrom(meta, id, record, i + 1,
                          [value EXCEPT ![field.name] = record[field.key]])
          ELSE decodeFrom(meta, id, record, i + 1, value)

\* a fresh instance of a registered type: every field holds its zero value
zeroValue(type) ==
  LET rels == getFieldsWithRelation(metadatas[type])
      names == {rels[i].name : i \in 1..Len(rels)}
      base == [type |-> type, ID |-> zeroObjectID, Name |-> ""]
      zero(name) == LET i == CHOOSE j \in 1..Len(rels) : rels[j].name = name
                    IN IF rels[i].relation.relation = "referenceMany" THEN <<>> ELSE Nil
  IN [name \in DOMAIN base \cup names |->
        IF name \in names THEN zero(name) ELSE base[name]]

\* what a call can answer: what the collection makes it answer, or a failure
Answers(regular) == regular \cup (IF faults < MaxFaults THEN DriverErrors ELSE {})

\* the count of failures after an answer
Faults(answer) == IF answer \in DriverErrors THEN faults + 1 ELSE faults

\* ------------------------------------------------------------ the resolver
\* The instances a read allocates are named o1, o2, .. in the order of their
\* allocation; a relation field of an instance holds such names.  The state
\* of one resolveRelations invocation is a record st:
\*   objs     the instances,            n       how many were allocated,
\*   fetched  fetchedDocuments,         batch   the slice the last .All filled,
\*   err      "ok", an error, "panic" or "StackOverflow",
\*   refetch  a record whose id was in fetchedDocuments was fetched again,
\*   rebound  an id of fetchedDocuments was bound to another instance,
\*   depth    the deepest level of recursion entered.
\* The queries of the resolver answer without error.  Where a state is handed
\* to a recursive call it is first bound by a set constructor, which makes it
\* a value that is computed once.
Obj(n) == "o" \o ToString(n)

\* the depth of recursion no terminating resolution of MaxId records reaches;
\* beyond it the recursion does not end and the goroutine stack overflows
MaxDepth == MaxId + 3

Range(seq) == {seq[i] : i \in 1..Len(seq)}

RECURSIVE flatten(_)
flatten(seqs) == IF Len(seqs) = 0 THEN <<>> ELSE Head(seqs) \o flatten(Tail(seqs))

\* the order in which the driver iterates over the records of a query
RECURSIVE Ascending(_)
Ascending(S) ==
  IF S = {} THEN <<>>
  ELSE LET m == CHOOSE x \in S : \A y \in S : x <= y
       IN <<m>> \o Ascending(S \ {m})

filterNothing(ids, fetched) == ids

\* filter(ids, not in fetchedDocuments)
filter(ids, fetched) ==
  LET Test(id) == id \notin DOMAIN fetched IN SelectSeq(ids, Test)

findField(meta, fieldname) ==
  LET hits == {i \in 1..Len(meta.fields) : meta.fields[i].name = fieldname}
  IN IF hits = {} THEN [found |-> FALSE, field |-> IdByKey]
     ELSE [found |-> TRUE,
           field |-> meta.fields[CHOOSE i \in hits : \A j \in hits : i <= j]]

\* the identifiers a record holds under the key of a field: the elements of
\* the array of a referenceMany field, the scalar otherwise
Refs(field, record) ==
  IF field.key \notin DOMAIN record THEN <<>>
  ELSE IF field.relation.relation = "referenceMany" THEN record[field.key]
  ELSE <<record[field.key]>>

\* Find({"_id": {"$in": ids}}): the ids of the records found
FindIn(collection, ids) ==
  Ascending({id \in ids : <<collection, id>> \in DOMAIN database})

\* Find({"_id": {"$nin": excluded}, field.key: {"$in": ids}})
FindReferring(collection, field, ids, excluded) ==
  Ascending({k[2] : k \in {key \in DOMAIN database :
     /\ key[1] = collection
     /\ key[2] \notin excluded
     /\ Range(Refs(field, database[key])) \cap ids # {}}})

\* .All(&slice): one fresh instance per record found, decoded from it
RECURSIVE allocate(_, _, _, _)
allocate(st, type, ids, i) ==
  IF i > Len(ids) THEN st
  ELSE LET name == Obj(st.n + 1)
           meta == metadatas[type]
           value == decodeFrom(meta, ids[i], database[<<meta.targetDocument, ids[i]>>],
                               1, zeroValue(type))
       IN CHOOSE r \in {allocate(s, type, ids, i + 1) :
                          s \in {[st EXCEPT !.n = @ + 1,
                                            !.objs = Put(@, name, value),
                                            !.batch = Append(@, name),
                                            !.refetch = @ \/ ids[i] \in DOMAIN st.fetched]}} :
            TRUE

\* keyBy: the last value of the collection with a key is the one kept
keyBy(objs, names, idOf(_, _)) ==
  [id \in {idOf(objs, names[i]) : i \in 1..Len(names)} |->
     names[CHOOSE i \in 1..Len(names) :
             /\ idOf(objs, names[i]) = id
             /\ \A j \in 1..Len(names) : idOf(objs, names[j]) = id => j <= i]]

\* the value of the field named meta.idField
idFieldOf(objs, name) == objs[name][metadatas[objs[name].type].idField]

keyValuesByObjectID(objs, names) == keyBy(objs, names, getDocumentID)
keyNoResults(objs, names) == EmptyMap
keyRelatedResultsByObjectID(objs, names) == keyBy(objs, names, idFieldOf)

\* reflect.Append of the instances wired(id) to the field of every source
appendTo(st, keyed, name, wired(_)) ==
  [st EXCEPT !.objs = [o \in DOMAIN @ |->
     IF \E id \in DOMAIN keyed : keyed[id] = o
     THEN LET id == CHOOSE x \in DOMAIN keyed : keyed[x] = o
          IN [@[o] EXCEPT ![name] = @ \o wired(id)]
     ELSE @[o]]]

\* Set of the field of every source that has a related instance
setTo(st, keyed, name, has(_), related(_)) ==
  [st EXCEPT !.objs = [o \in DOMAIN @ |->
     IF \E id \in DOMAIN keyed : keyed[id] = o /\ has(id)
     THEN LET id == CHOOSE x \in DOMAIN keyed : keyed[x] = o
          IN [@[o] EXCEPT ![name] = related(id)]
     ELSE @[o]]]

failed(st, err) == [st EXCEPT !.err = err]

RECURSIVE doResolveRelations(_, _, _, _)
RECURSIVE resolveFields(_, _, _, _, _, _, _)

\* case referenceMany, mappedBy
manyMappedBy(st, keyed, field, depth) ==
  LET related == findMetadataByCollectionName(field.relation.targetDocument)
      relatedField == findField(related.meta, field.relation.mappedField)
  IN IF ~related.found THEN failed(st, "ErrDocumentNotRegistered")
     ELSE IF ~relatedField.found THEN failed(st, "ErrFieldNotFound")
     ELSE
     LET documentIds == DOMAIN keyed
         collection == related.meta.targetDocument
         relatedDocs == FindReferring(collection, relatedField.field, documentIds, {})
         record(id) == database[<<collection, id>>]
         \* relatedDocsMappedBySourceId[sourceId]
         occurrences(doc, sourceId) ==
           LET Test(id) == id = sourceId
           IN IF relatedField.field.relation.relation \in {"referenceMany", "referenceOne"}
              THEN SelectSeq(Refs(relatedField.field, record(doc)), Test)
              ELSE <<>>
         docs(sourceId) ==
           flatten([i \in 1..Len(relatedDocs) |->
                      [j \in 1..Len(occurrences(relatedDocs[i], sourceId)) |->
                         relatedDocs[i]]])
         relatedIds == filter(relatedDocs, st.fetched)
         st1 == allocate([st EXCEPT !.batch = <<>>], related.type,
                         FindIn(collection, Range(relatedIds)), 1)
         relatedDocsMappedById == keyRelatedResultsByObjectID(st1.objs, st1.batch)
         wired(sourceId) ==
           flatten([i \in 1..Len(docs(sourceId)) |->
              LET id == docs(sourceId)[i]
              IN IF id \in DOMAIN st.fetched THEN <<st.fetched[id]>>
                 ELSE IF id \in DOMAIN relatedDocsMappedById
                 THEN <<relatedDocsMappedById[id]>>
                 ELSE <<>>])
         st2 == appendTo(st1, keyed, field.name, wired)
     IN CHOOSE r \in {doResolveRelations(s, related.type, s.batch, depth + 1) :
                        s \in {st2}} : TRUE

\* case referenceMany, default
manyOwning(st, meta, keyed, field, depth) ==
  LET documentIds == DOMAIN keyed
      results == FindIn(meta.targetDocument, documentIds)
      record(id) == database[<<meta.targetDocument, id>>]
      stored(id) == IF id \in Range(results) THEN Refs(field, record(id)) ELSE <<>>
      \* the related documents already fetched
      already(id) ==
        flatten([i \in 1..Len(stored(id)) |->
           IF stored(id)[i] \in DOMAIN st.fetched
           THEN <<st.fetched[stored(id)[i]]>> ELSE <<>>])
      st1 == appendTo(st, keyed, field.name, already)
      relatedObjectIds ==
        filter(flatten([i \in 1..Len(results) |-> stored(results[i])]), st.fetched)
      related == findMetadataByCollectionName(field.relation.targetDocument)
  IN IF Len(relatedObjectIds) = 0 THEN st1
     ELSE IF ~related.found THEN failed(st1, "ErrDocumentNotRegistered")
     ELSE
     LET st2 == allocate([st1 EXCEPT !.batch = <<>>], related.type,
                         FindIn(field.relation.targetDocument, Range(relatedObjectIds)), 1)
         \* the remaining related documents
         remaining(id) ==
           flatten([i \in 1..Len(stored(id)) |->
              LET Test(name) == getDocumentID(st2.objs, name) = stored(id)[i]
              IN SelectSeq(st2.batch, Test)])
         st3 == appendTo(st2, keyed, field.name, remaining)
     IN IF \E id \in Range(results) : field.key \notin DOMAIN record(id)
        THEN failed(st2, "panic")
        ELSE CHOOSE r \in {doResolveRelations(s, related.type, s.batch, depth + 1) :
                           s \in {st3}} : TRUE

\* case referenceOne, mappedBy
oneMappedBy(st, keyed, field, depth) ==
  LET related == findMetadataByCollectionName(field.relation.targetDocument)
      relatedField == findField(related.meta, field.relation.mappedField)
  IN IF ~related.found THEN failed(st, "ErrDocumentNotRegistered")
     ELSE IF ~relatedField.found THEN failed(st, "ErrFieldNotFound")
     ELSE
     LET documentIds == DOMAIN keyed
         collection == related.meta.targetDocument
         relatedDocumentMaps ==
           FindReferring(collection, relatedField.field, documentIds, documentIds)
         refs(doc) == Range(Refs(relatedField.field, database[<<collection, doc>>]))
         \* relatedDocumentsMapsMappedByDocumentID: the last related document
         \* that refers to documentId
         mapsById ==
           [documentId \in UNION {refs(relatedDocumentMaps[i]) :
                                    i \in 1..Len(relatedDocumentMaps)} |->
              relatedDocumentMaps[CHOOSE i \in 1..Len(relatedDocumentMaps) :
                 /\ documentId \in refs(relatedDocumentMaps[i])
                 /\ \A j \in 1..Len(relatedDocumentMaps) :
                      documentId \in refs(relatedDocumentMaps[j]) => j <= i]]
         relatedDocumentIds == filter(relatedDocumentMaps, st.fetched)
         st1 == allocate([st EXCEPT !.batch = <<>>], related.type,
                         FindIn(collection, Range(relatedDocumentIds)), 1)
         fresh == keyRelatedResultsByObjectID(st1.objs, st1.batch)
         has(documentId) ==
           /\ documentId \in DOMAIN mapsById
           /\ mapsById[documentId] \in DOMAIN fresh \cup DOMAIN st.fetched
         relatedDocument(documentId) ==
           IF mapsById[documentId] \in DOMAIN fresh
           THEN fresh[mapsById[documentId]]
           ELSE st.fetched[mapsById[documentId]]
         st2 == setTo(st1, keyed, field.name, has, relatedDocument)
     IN CHOOSE r \in {doResolveRelations(s, related.type, s.batch, depth + 1) :
                        s \in {st2}} : TRUE

\* case referenceOne, default
oneOwning(st, meta, keyed, field, depth) ==
  LET documentIds == DOMAIN keyed
      record(id) == database[<<meta.targetDocument, id>>]
      results == SelectSeq(FindIn(meta.targetDocument, documentIds),
                           LAMBDA id : field.key \in DOMAIN record(id))
      relatedOf(id) == record(id)[field.key]
      \* the related document was already fetched
      hasFetched(id) == id \in Range(results) /\ relatedOf(id) \in DOMAIN st.fetched
      fetchedOf(id) == st.fetched[relatedOf(id)]
      st1 == setTo(st, keyed, field.name, hasFetched, fetchedOf)
      relatedObjectIds ==
        filter([i \in 1..Len(results) |-> relatedOf(results[i])], st.fetched)
      related == findMetadataByCollectionName(field.relation.targetDocument)
  IN IF Len(relatedObjectIds) = 0 THEN st1
     ELSE IF ~related.found THEN failed(st1, "ErrDocumentNotRegistered")
     ELSE
     LET st2 == allocate([st1 EXCEPT !.batch = <<>>], related.type,
                         FindIn(field.relation.targetDocument, Range(relatedObjectIds)), 1)
         byId == keyRelatedResultsByObjectID(st2.objs, st2.batch)
         hasAll(id) == TRUE
         relatedResult(id) == byId[relatedOf(id)]
         st3 == setTo(st2, keyed, field.name, hasAll, relatedResult)
     IN \* result[field.key].(bson.ObjectId) of a source without the key, and
        \* Set of the zero reflect.Value of a missing map entry, panic
        IF \E id \in documentIds :
             id \notin Range(results) \/ relatedOf(id) \notin DOMAIN byId
        THEN failed(st2, "panic")
        ELSE CHOOSE r \in {doResolveRelations(s, related.type, s.batch, depth + 1) :
                           s \in {st3}} : TRUE

skipsNothing(top, field) == FALSE

\* the relation of a related document is not resolved when its load is lazy
skips(top, field) == ~top /\ field.relation.load = "lazy"

\* the body of the loop over the fields with a relation
resolveField(st, meta, top, keyed, field, depth) ==
  IF skips(top, field) THEN st
  ELSE IF field.relation.relation = "referenceMany"
  THEN IF field.relation.mapped = "mappedBy"
       THEN manyMappedBy(st, keyed, field, depth)
       ELSE manyOwning(st, meta, keyed, field, depth)
  ELSE IF field.relation.relation = "referenceOne"
  THEN IF field.relation.mapped = "mappedBy"
       THEN oneMappedBy(st, keyed, field, depth)
       ELSE oneOwning(st, meta, keyed, field, depth)
  ELSE st

resolveFields(st, meta, top, keyed, fields, i, depth) ==
  IF i > Len(fields) \/ st.err # "ok" THEN st
  ELSE CHOOSE r \in {resolveFields(s, meta, top, keyed, fields, i + 1, depth) :
                       s \in {resolveField(st, meta, top, keyed, fields[i], depth)}} :
         TRUE

doResolveRelations(st, type, documents, depth) ==
  IF depth > MaxDepth THEN failed(st, "StackOverflow")
  ELSE
  LET meta == metadatas[type]
      top == DOMAIN st.fetched = {}
      sourceValuesKeyedBySourceID == keyValuesByObjectID(st.objs, documents)
      st1 == [st EXCEPT
                !.fetched = [id \in DOMAIN st.fetched \cup DOMAIN sourceValuesKeyedBySourceID |->
                               IF id \in DOMAIN sourceValuesKeyedBySourceID
                               THEN sourceValuesKeyedBySourceID[id]
                               ELSE st.fetched[id]],
                !.rebound = @ \/ \E id \in DOMAIN st.fetched \cap DOMAIN sourceValuesKeyedBySourceID :
                                   st.fetched[id] # sourceValuesKeyedBySourceID[id],
                !.depth = IF depth > @ THEN depth ELSE @]
  IN IF metaHasRelation(meta)
     THEN CHOOSE r \in {resolveFields(s, meta, top, keyed,
                                      getFieldsWithRelation(meta), 1, depth) :
                          s \in {st1}, keyed \in {sourceValuesKeyedBySourceID}} : TRUE
     ELSE st1

\* resolveRelations on the documents a read decoded: ids are the records read
resolveRelations(type, ids) ==
  LET st0 == [objs |-> EmptyMap, fetched |-> EmptyMap, n |-> 0, batch |-> <<>>,
              err |-> "ok", refetch |-> FALSE, rebound |-> FALSE, depth |-> 0]
  IN CHOOSE r \in {[doResolveRelations(s, type, s.batch, 1) EXCEPT !.batch = s.batch] :
                     s \in {allocate(st0, type, ids, 1)}} : TRUE

\* ------------------------------------------------------ the unit of work
popKeeps(t, value) == t

\* tasks.pop, for the entry the map iteration yields first
pop(t, value) == Drop(t, value)

enqueueNothing(st, doc, task) == st

\* manager.tasks[doc] = task, written by a cascade
enqueue(st, doc, task) ==
  [st EXCEPT !.tasks = Put(@, doc, task), !.byApp = @ \ {doc}]

withoutNewObjectId(st, doc, name) == st

\* doPersist, `if isZero(id.Interface()) { ...Set(bson.NewObjectId()) }`: a
\* related document without identifier is given one
withNewObjectId(st, doc, name) ==
  IF isZero("ObjectId", st.heap[doc][name])
  THEN [st EXCEPT !.heap[doc][name] = st.nextId, !.nextId = @ + 1]
  ELSE st

cascadesAlways(field) == TRUE

\* doPersist, `field.relation.cascade == all || field.relation.cascade == persist`
cascadesPersist(field) == field.relation.cascade \in {"all", "persist"}

\* doPersist, the loop over the documents of a referenceMany field
RECURSIVE persistMany(_, _, _, _, _)
persistMany(st, field, meta, many, i) ==
  IF i > Len(many) THEN st
  ELSE LET doc == many[i]
           idField == findIDField(meta)
       IN IF ~idField.found THEN persistMany(st, field, meta, many, i + 1)
          ELSE LET name == idField.field.name
                   st1 == withNewObjectId(st, doc, name)
                   st2 == [st1 EXCEPT !.ids = Append(@, st1.heap[doc][name])]
                   st3 == IF cascadesPersist(field)
                          THEN enqueue(st2, doc, insert) ELSE st2
               IN persistMany(st3, field, meta, many, i + 1)

ownsRelationAlways(field) == TRUE

\* doPersist, `if field.relation.mapped != mappedBy`: the relation is stored
\* on this side
ownsRelation(field) == field.relation.mapped # "mappedBy"

\* doPersist, the body of the loop over the fields with a relation
persistField(st, document, field) ==
  IF ~ownsRelation(field) THEN st
  ELSE LET target == findMetadataByCollectionName(field.relation.targetDocument)
       IN IF field.relation.relation = "referenceMany"
          THEN LET st0 == [st EXCEPT !.ids = <<>>]
                   st1 == IF target.found
                          THEN persistMany(st0, field, target.meta,
                                           st0.heap[document][field.name], 1)
                          ELSE st0
               IN [st1 EXCEPT !.Map = Put(@, field.key, st1.ids)]
          ELSE IF ~target.found THEN st
          ELSE LET one == st.heap[document][field.name]
                   idField == findIDField(target.meta)
               IN IF isZero("ptr", one) \/ ~idField.found THEN st
                  ELSE LET name == idField.field.name
                           st1 == withNewObjectId(st, one, name)
                           st2 == IF cascadesPersist(field)
                                  THEN enqueue(st1, one, insert) ELSE st1
                       IN [st2 EXCEPT !.Map = Put(@, field.key, st2.heap[one][name])]

RECURSIVE persistFields(_, _, _, _)
persistFields(st, document, fields, i) ==
  IF i > Len(fields) THEN st
  ELSE persistFields(persistField(st, document, fields[i]), document, fields, i + 1)

\* doPersist up to the driver call: the ids given to related documents, the
\* tasks enqueued by cascade and the record to upsert
doPersist(h, t, b, n, document) ==
  LET st == [heap |-> h, tasks |-> t, byApp |-> b, nextId |-> n,
             Map |-> structToMap(h, document), ids |-> <<>>]
      meta == metaOf(h, document)
  IN IF metaHasRelation(meta)
     THEN persistFields(st, document, getFieldsWithRelation(meta), 1)
     ELSE st

\* doRemove, the loop over the documents of a referenceMany field
RECURSIVE removeMany(_, _, _, _, _)
removeMany(st, h, meta, many, i) ==
  IF i > Len(many) THEN st
  ELSE LET doc == many[i]
           idField == findIDField(meta)
       IN IF ~idField.found THEN removeMany(st, h, meta, many, i + 1)
          ELSE IF ~isZero("ObjectId", h[doc][idField.field.name])
          THEN removeMany(enqueue(st, doc, del), h, meta, many, i + 1)
          ELSE removeMany(st, h, meta, many, i + 1)

\* doRemove, the body of the loop over the fields with a relation
removeField(st, h, document, field) ==
  IF field.relation.cascade \notin {"all", "remove"} THEN st
  ELSE LET target == findMetadataByCollectionName(field.relation.targetDocument)
       IN IF ~target.found THEN st
          ELSE IF field.relation.relation = "referenceMany"
          THEN removeMany(st, h, target.meta, h[document][field.name], 1)
          ELSE LET one == h[document][field.name]
                   idField == findIDField(target.meta)
               IN IF isZero("ptr", one) \/ ~idField.found THEN st
                  ELSE IF ~isZero("ObjectId", h[one][idField.field.name])
                  THEN enqueue(st, one, del)
                  ELSE st

RECURSIVE removeFields(_, _, _, _, _)
removeFields(st, h, document, fields, i) ==
  IF i > Len(fields) THEN st
  ELSE removeFields(removeField(st, h, document, fields[i]), h, document, fields, i + 1)

\* doRemove up to the driver call: the tasks enqueued by cascade
doRemove(h, t, b, document) ==
  LET st == [tasks |-> t, byApp |-> b]
      meta == metaOf(h, document)
  IN IF metaHasRelation(meta)
     THEN removeFields(st, h, document, getFieldsWithRelation(meta), 1)
     ELSE st

resetIDSkipped(h, document) == h

\* doRemove after a delete without error: the id is set to the zero value
resetID(h, document) == setIDForValue(h, document, zeroObjectID)

resetIDAlways(h, document, answer) == resetID(h, document)

\* doRemove, `if err != nil { return err }` before the id is set to zero
afterRemoveId(h, document, answer) ==
  IF answer = "ok" THEN resetID(h, document) ELSE h

afterCallGoesOn(answer) == "flush"

\* Flush, `if err != nil { return err }`: the loop goes on after an answer
\* without error only
afterCall(answer) == IF answer = "ok" THEN "flush" ELSE "idle"

\* what Flush returns when a call answers: the error as it is
returned(answer) == IF answer = "ok" THEN "running" ELSE answer


\* ----------------------------------------------------------- the records
NoCall ==
  [op |-> "", doc |-> Nil, id |-> zeroObjectID, seq |-> "", type |-> "",
   collection |-> "", err |-> ""]
NoFound ==
  [op |-> "", err |-> "", type |-> "", id |-> zeroObjectID, doc |-> Doc("", Nil),
   objs |-> EmptyMap, roots |-> <<>>, fetched |-> EmptyMap,
   refetch |-> FALSE, rebound |-> FALSE, depth |-> 0]

\* what a read returns after resolveRelations ran on the records it decoded
Resolved(op, type, id, ids) ==
  CHOOSE r \in
    {[op |-> op, err |-> res.err, type |-> type, id |-> id,
      doc |-> IF Len(res.batch) > 0 THEN res.objs[res.batch[1]] ELSE zeroValue(type),
      objs |-> res.objs, roots |-> res.batch, fetched |-> res.fetched,
      refetch |-> res.refetch, rebound |-> res.rebound, depth |-> res.depth] :
     res \in {resolveRelations(type, ids)}} : TRUE
NoFlush ==
  [result |-> "", answer |-> "ok", popped |-> Nil, init |-> EmptyMap,
   initByApp |-> {}, ids |-> EmptyMap, stored |-> {}, deleteWins |-> Nil,
   nUpsert |-> EmptyMap, nDelete |-> EmptyMap]

\* the documents whose identifier names a record of their collection
Stored(h, db) ==
  {e \in DOMAIN h : <<metaOf(h, e).targetDocument, h[e].ID>> \in DOMAIN db}

Bump(count, document) == [count EXCEPT ![document] = Min(@ + 1, MaxCount)]

\* --------------------------------------------------------------- actions
InitIn(W) ==
  \E w \in W :
    /\ metadatas = w.metadatas
    /\ heap = w.heap
    /\ tasks = EmptyMap
    /\ database = EmptyMap
    /\ indexes = {}
    /\ nextId = zeroObjectID + 1
    /\ pc = "idle"
    /\ byApp = {}
    /\ last = NoCall
    /\ fl = NoFlush
    /\ found = NoFound
    /\ faults = 0

Init == InitIn(Worlds)

\* the application writes a scalar field of one of its documents
SetName(document, v) ==
  /\ pc = "idle"
  /\ \E i \in 1..Len(metaOf(heap, document).fields) :
        metaOf(heap, document).fields[i].name = "Name"
  /\ heap[document].Name # v
  /\ heap' = [heap EXCEPT ![document].Name = v]
  /\ last' = NoCall
  /\ fl' = NoFlush
  /\ found' = NoFound
  /\ UNCHANGED <<metadatas, tasks, database, indexes, nextId, pc, byApp, faults>>

\* the values the application can give a relation field
Wirings(document, field) ==
  LET targets == {d \in DOMAIN heap :
                    metaOf(heap, d).targetDocument = field.relation.targetDocument}
  IN IF field.relation.relation = "referenceMany"
     THEN {s \in Seq2(targets) : Len(s) = 2 => s[1] # s[2]}
     ELSE targets \cup {Nil}

\* the application writes a relation field of one of its documents
SetRel(document, name, v) ==
  /\ pc = "idle"
  /\ heap[document][name] # v
  /\ heap' = [heap EXCEPT ![document][name] = v]
  /\ last' = NoCall
  /\ fl' = NoFlush
  /\ found' = NoFound
  /\ UNCHANGED <<metadatas, tasks, database, indexes, nextId, pc, byApp, faults>>

Persist(value) ==
  /\ pc = "idle"
  /\ LET id == getDocumentID(heap, value)
     IN IF ~Valid(id)
        THEN /\ nextId <= MaxId
             /\ heap' = setIDForValue(heap, value, nextId)
             /\ nextId' = nextId + 1
             /\ tasks' = Put(tasks, value, insert)
        ELSE /\ tasks' = Put(tasks, value, update)
             /\ UNCHANGED <<heap, nextId>>
  /\ byApp' = byApp \cup {value}
  /\ last' = [NoCall EXCEPT
                !.op = "Persist", !.doc = value, !.id = heap[value].ID,
                !.seq = IF heap[value].ID = zeroObjectID THEN "PersistNew" ELSE ""]
  /\ fl' = NoFlush
  /\ found' = NoFound
  /\ UNCHANGED <<metadatas, database, indexes, pc, faults>>

Remove(document) ==
  /\ pc = "idle"
  /\ tasks' = Put(tasks, document, del)
  /\ byApp' = byApp \cup {document}
  /\ last' = [NoCall EXCEPT
                !.op = "Remove", !.doc = document, !.id = heap[document].ID,
                !.seq = IF last.seq = "PersistNew" /\ last.doc = document
                        THEN "PersistNew;Remove" ELSE ""]
  /\ fl' = NoFlush
  /\ found' = NoFound
  /\ UNCHANGED <<metadatas, heap, database, indexes, nextId, pc, faults>>

\* Flush is called: the loop condition is evaluated next
FlushBegin ==
  /\ pc = "idle"
  /\ pc' = "flush"
  /\ fl' = [NoFlush EXCEPT
              !.result = "running",
              !.init = tasks,
              !.initByApp = byApp,
              !.ids = [e \in DOMAIN heap |-> heap[e].ID],
              !.stored = Stored(heap, database),
              !.deleteWins = IF last.seq = "PersistNew;Remove" THEN last.doc ELSE Nil,
              !.nUpsert = [e \in DOMAIN heap |-> 0],
              !.nDelete = [e \in DOMAIN heap |-> 0]]
  /\ last' = NoCall
  /\ found' = NoFound
  /\ UNCHANGED <<metadatas, heap, tasks, database, indexes, nextId, byApp, faults>>

\* len(manager.tasks) == 0: Flush returns nil
FlushReturn ==
  /\ pc = "flush"
  /\ DOMAIN tasks = {}
  /\ pc' = "idle"
  /\ fl' = [fl EXCEPT !.result = "ok"]
  /\ UNCHANGED <<metadatas, heap, tasks, database, indexes, nextId, byApp, last, found, faults>>

\* one iteration of the loop of Flush, case del
FlushRemove(document) ==
  /\ pc = "flush"
  /\ document \in DOMAIN tasks
  /\ tasks[document] = del
  /\ LET st == doRemove(heap, pop(tasks, document), byApp \ {document}, document)
         id == MapID(structToMap(heap, document))
         collection == metaOf(heap, document).targetDocument
     IN \E answer \in Answers(RemoveIdAnswers(database, collection, id)) :
          /\ faults' = Faults(answer)
          /\ tasks' = st.tasks
          /\ byApp' = st.byApp
          /\ database' = IF answer = "ok" THEN RemoveId(database, collection, id)
                         ELSE database
          /\ heap' = afterRemoveId(heap, document, answer)
          /\ pc' = afterCall(answer)
          /\ fl' = [fl EXCEPT !.result = returned(answer), !.answer = answer,
                              !.popped = document,
                              !.nDelete = Bump(@, document)]
  /\ UNCHANGED <<metadatas, indexes, nextId, last, found>>

\* The runs of the loop of Flush from a unit of work u (heap, tasks, byApp,
\* database, nextId) in which every driver call answers without error.
\* iteration(u, document): the unit of work after the iteration that pops the
\* task of the document, or no unit of work when its driver call fails
iteration(u, document) ==
  LET collection == metaOf(u.heap, document).targetDocument
      popped == pop(u.tasks, document)
  IN IF u.tasks[document] = del
     THEN LET st == doRemove(u.heap, popped, u.byApp \ {document}, document)
              id == MapID(structToMap(u.heap, document))
          IN IF "ok" \in RemoveIdAnswers(u.database, collection, id)
             THEN {[heap |-> afterRemoveId(u.heap, document, "ok"),
                    tasks |-> st.tasks, byApp |-> st.byApp,
                    database |-> RemoveId(u.database, collection, id),
                    nextId |-> u.nextId]}
             ELSE {}
     ELSE LET st == doPersist(u.heap, popped, u.byApp \ {document}, u.nextId, document)
              id == MapID(st.Map)
          IN IF "ok" \in UpsertIdAnswers(id)
             THEN {[heap |-> st.heap, tasks |-> st.tasks, byApp |-> st.byApp,
                    database |-> UpsertId(u.database, collection, id, stripID(st.Map)),
                    nextId |-> st.nextId]}
             ELSE {}

\* the units of work Flush can return nil with, over every order in which
\* tasks.pop yields the entries of the map; seen are the units of work the
\* run went through, a run that comes back to one of them never returns
RECURSIVE drained(_, _)
drained(u, seen) ==
  IF DOMAIN u.tasks = {} THEN {u}
  ELSE IF u \in seen THEN {}
  ELSE UNION {drained(v, seen \cup {u}) :
                v \in UNION {iteration(u, document) : document \in DOMAIN u.tasks}}

indexesWithoutComposites(meta) ==
  IF hasFieldWithIndex(meta) THEN getIndexes(meta) ELSE <<>>

\* the indexes Flush ensures before doPersist, in the order of the calls
indexesOf(meta) ==
  (IF hasFieldWithIndex(meta) THEN getIndexes(meta) ELSE <<>>)
  \o (IF hasFieldWithComposite(meta) THEN getComposites(meta) ELSE <<>>)

\* one iteration of the loop of Flush, case insert, update
FlushPersist(document) ==
  /\ pc = "flush"
  /\ document \in DOMAIN tasks
  /\ tasks[document] \in {insert, update}
  /\ LET metaData == metaOf(heap, document)
         collection == metaData.targetDocument
         idxs == indexesOf(metaData)
         popped == pop(tasks, document)
         Ensured(k) == {[collection |-> collection, index |-> idxs[i]] : i \in 1..k}
     IN \/ \* the EnsureIndex call number k+1 fails
           \E k \in 0..(Len(idxs) - 1), answer \in Answers({}) :
             /\ faults' = Faults(answer)
             /\ indexes' = indexes \cup Ensured(k)
             /\ tasks' = popped
             /\ byApp' = byApp \ {document}
             /\ pc' = afterCall(answer)
             /\ fl' = [fl EXCEPT !.result = returned(answer), !.answer = answer,
                                 !.popped = document]
             /\ UNCHANGED <<heap, database, nextId>>
        \/ \* the indexes are ensured, doPersist runs
           LET st == doPersist(heap, popped, byApp \ {document}, nextId, document)
               id == MapID(st.Map)
           IN /\ st.nextId <= MaxId + 1
              /\ \E answer \in Answers(UpsertIdAnswers(id)) :
                   /\ faults' = Faults(answer)
                   /\ indexes' = indexes \cup Ensured(Len(idxs))
                   /\ heap' = st.heap
                   /\ nextId' = st.nextId
                   /\ tasks' = st.tasks
                   /\ byApp' = st.byApp
                   /\ database' = IF answer = "ok"
                                  THEN UpsertId(database, collection, id, stripID(st.Map))
                                  ELSE database
                   /\ pc' = afterCall(answer)
                   /\ fl' = [fl EXCEPT !.result = returned(answer), !.answer = answer,
                                       !.popped = document,
                                       !.nUpsert = Bump(@, document)]
  /\ UNCHANGED <<metadatas, last, found>>

\* FindID into a fresh instance of a registered type
FindID(type, documentID) ==
  /\ pc = "idle"
  /\ LET meta == metadatas[type]
         key == <<meta.targetDocument, documentID>>
         answers == IF key \in DOMAIN database THEN {"ok"} ELSE {ErrNotFound}
     IN \E answer \in Answers(answers) :
          /\ faults' = Faults(answer)
          /\ found' = IF answer = "ok"
                       THEN Resolved("FindID", type, documentID, <<documentID>>)
                       ELSE [NoFound EXCEPT !.op = "FindID", !.err = answer,
                                            !.type = type, !.id = documentID,
                                            !.doc = zeroValue(type)]
  /\ last' = [NoCall EXCEPT !.op = "FindID", !.id = documentID]
  /\ UNCHANGED <<metadatas, heap, tasks, database, indexes, nextId, pc, byApp, fl>>

\* FindAll into a fresh slice of a registered type
FindAll(type) ==
  /\ pc = "idle"
  /\ LET meta == metadatas[type]
         ids == Ascending({k[2] : k \in {key \in DOMAIN database :
                                           key[1] = meta.targetDocument}})
     IN \E answer \in Answers({"ok"}) :
          /\ faults' = Faults(answer)
          /\ found' = IF answer = "ok"
                       THEN Resolved("FindAll", type, zeroObjectID, ids)
                       ELSE [NoFound EXCEPT !.op = "FindAll", !.err = answer,
                                            !.type = type]
  /\ last' = [NoCall EXCEPT !.op = "FindAll"]
  /\ UNCHANGED <<metadatas, heap, tasks, database, indexes, nextId, pc, byApp, fl>>

storedAppending(m, Type, meta) ==
  IF Type.type \in DOMAIN m
  THEN Put(m, Type.type, [meta EXCEPT !.fields = m[Type.type].fields \o @])
  ELSE Put(m, Type.type, meta)

\* manager.metadatas[documentType] = meta
stored(m, Type, meta) == Put(m, Type.type, meta)

\* Register(targetDocument, document) for a document of the struct type
Register(targetDocument, Type) ==
  /\ pc = "idle"
  /\ LET compiled == getTypeMetadatas(Type)
         err == IF Type.kind \notin {"ptr to struct", "ptr to int"} THEN ErrNotAPointer
                ELSE IF Type.kind # "ptr to struct" THEN ErrNotAstruct
                ELSE compiled.err
     IN /\ metadatas' =
             IF err = "ok"
             THEN stored(metadatas, Type,
                         [compiled.meta EXCEPT !.targetDocument = targetDocument])
             ELSE metadatas
        /\ last' = [NoCall EXCEPT !.op = "Register", !.type = Type.type,
                                  !.collection = targetDocument, !.err = err]
  /\ fl' = NoFlush
  /\ found' = NoFound
  /\ UNCHANGED <<heap, tasks, database, indexes, nextId, pc, byApp, faults>>

\* the identifiers the application knows a document by: the one it holds
\* and the one it held when it last called Flush
KnownIds(e) ==
  ({heap[e].ID} \cup (IF e \in DOMAIN fl.ids THEN {fl.ids[e]} ELSE {})) \ {zeroObjectID}

Next ==
  \/ \E e \in DOMAIN heap, v \in Values : SetName(e, v)
  \/ \E e \in DOMAIN heap : Persist(e)
  \/ \E e \in DOMAIN heap : Remove(e)
  \/ FlushBegin
  \/ \E e \in DOMAIN heap : FlushRemove(e)
  \/ \E e \in DOMAIN heap : FlushPersist(e)
  \/ FlushReturn
  \/ \E e \in DOMAIN heap : \E id \in KnownIds(e) : FindID(heap[e].type, id)

Spec == Init /\ [][Next]_vars

\* the worlds whose identifier fields are declared by the storage key _id
SpecByKey == InitIn(KeyWorlds) /\ [][Next]_vars

\* two owners of one related document
SpecDiamond == InitIn({WorldDiamond, WorldPlain}) /\ [][Next]_vars

\* the reads of whole collections
NextRead ==
  \/ Next
  \/ \E t \in DOMAIN metadatas : FindAll(t)

\* reads of documents with owning and mapped relations, lazy and eager
SpecRead ==
  InitIn({WorldAuthor, WorldList, WorldEager, WorldSingle}) /\ [][NextRead]_vars

\* reads of the mapped side of an owning referenceMany and of an owning
\* referenceOne relation
SpecMapped == InitIn({WorldPair, WorldAuthor, WorldSingle}) /\ [][NextRead]_vars

\* the calls of the cycle scenario: Persist, Flush, FindID and FindAll
NextScenario ==
  \/ \E e \in DOMAIN heap : Persist(e)
  \/ FlushBegin
  \/ \E e \in DOMAIN heap : FlushPersist(e)
  \/ FlushReturn
  \/ \E e \in DOMAIN heap : \E id \in KnownIds(e) : FindID(heap[e].type, id)
  \/ \E t \in DOMAIN metadatas : FindAll(t)

\* a cycle of three users that is persisted, flushed and read
SpecUsers == InitIn({WorldUsers}) /\ [][NextScenario]_vars

\* the struct types and the collection names the application registers
Declared == {DocType, DocValue, MisnamedType, MistypedType, HiddenType, PlainType}
Collections == {"docs", "others"}

NextRegister ==
  \/ NextScenario
  \/ \E c \in Collections, T \in Declared : Register(c, T)

\* one document of a registered type, and the registrations of other types
SpecRegister == InitIn({WorldSingle}) /\ [][NextRegister]_vars

\* reads of a batch of roots with an owning referenceOne field
SpecBatch == InitIn({WorldBooks}) /\ [][NextScenario]_vars

\* types with single-field indexes, unique or not, and a composite index
SpecIndexed == InitIn({WorldEntry, WorldSingle}) /\ [][Next]_vars

\* owning relation fields whose cascade is none or remove
SpecUncascaded == InitIn({WorldChain, WorldList, WorldSingle}) /\ [][Next]_vars

\* the calls that fill and commit the unit of work
NextCommit ==
  \/ \E e \in DOMAIN heap : Persist(e)
  \/ \E e \in DOMAIN heap : Remove(e)
  \/ FlushBegin
  \/ \E e \in DOMAIN heap : FlushRemove(e)
  \/ \E e \in DOMAIN heap : FlushPersist(e)
  \/ FlushReturn

\* an iteration of the loop of Flush, or its return
FlushStep ==
  \/ \E e \in DOMAIN heap : FlushRemove(e)
  \/ \E e \in DOMAIN heap : FlushPersist(e)
  \/ FlushReturn

\* cycles and chains of cascading references; Flush, once called, runs: the
\* loop of Flush is sequential code that nothing suspends
SpecCommit ==
  /\ InitIn({WorldCycle, WorldChain})
  /\ [][NextCommit]_vars
  /\ WF_vars(FlushStep)

\* an owner and the document it cascade-persists to, persisted, removed and
\* committed
SpecParent == InitIn({WorldParent}) /\ [][NextCommit]_vars

\* commits that fail, of documents that cascade to each other or to themselves
SpecRetry == InitIn({WorldCycle, WorldSelf}) /\ [][NextCommit]_vars

\* owning and mapped relation fields with a cascade
SpecOwning == InitIn({WorldShelf, WorldAuthor, WorldPlain}) /\ [][Next]_vars

\* the application rewires relation fields between two commits
NextRewire ==
  \/ Next
  \/ \E e \in DOMAIN heap :
        \E i \in 1..Len(getFieldsWithRelation(metaOf(heap, e))) :
          LET field == getFieldsWithRelation(metaOf(heap, e))[i]
          IN \E v \in Wirings(e, field) : SetRel(e, field.name, v)

SpecRewire == InitIn({WorldLink, WorldPlain}) /\ [][NextRewire]_vars


\* ================================================================ claims
collectionOf(e) == metaOf(heap, e).targetDocument
IsStored(e, id) == <<collectionOf(e), id>> \in DOMAIN database
Returned == pc = "idle" /\ fl.result \notin {"", "running"}
ReturnedNil == pc = "idle" /\ fl.result = "ok"

\* the documents a field of owner holds
Held(owner, field) ==
  LET v == heap[owner][field.name]
  IN IF field.relation.relation = "referenceMany"
     THEN {v[i] : i \in 1..Len(v)}
     ELSE {v} \ {Nil}

\* the documents owner holds in a relation field whose cascade is in cs and
\* whose target collection is registered; owningOnly leaves out mapped fields
CascadeTargets(owner, cs, owningOnly) ==
  LET fields == getFieldsWithRelation(metaOf(heap, owner))
  IN UNION {Held(owner, fields[i]) : i \in
              {j \in 1..Len(fields) :
                 /\ fields[j].relation.cascade \in cs
                 /\ findMetadataByCollectionName(fields[j].relation.targetDocument).found
                 /\ owningOnly => fields[j].relation.mapped # "mappedBy"}}

RECURSIVE CascadeClosure(_, _, _, _)
CascadeClosure(S, cs, owningOnly, n) ==
  IF n = 0 THEN S
  ELSE CascadeClosure(S \cup UNION {CascadeTargets(x, cs, owningOnly) : x \in S},
                      cs, owningOnly, n - 1)

Reachable(owner, cs, owningOnly) ==
  CascadeClosure(CascadeTargets(owner, cs, owningOnly), cs, owningOnly,
                 Cardinality(DOMAIN heap))

\* C1: Persist(e) gives a document without identifier a non-zero identifier
\* and records a create intent, records an update intent for a document that
\* has an identifier, and makes no driver call.
C1_PersistRecordsIntent ==
  [][last'.op = "Persist" =>
       LET e == last'.doc
       IN /\ heap[e].ID = zeroObjectID =>
               heap'[e].ID # zeroObjectID /\ tasks'[e] = insert
          /\ heap[e].ID # zeroObjectID => tasks'[e] = update
          /\ database' = database /\ indexes' = indexes]_vars

\* C2: Persist(e) on a document whose identifier is non-zero leaves the
\* identifier unchanged, however the identifier field was declared.
C2_PersistKeepsIdentifier ==
  [][(last'.op = "Persist" /\ heap[last'.doc].ID # zeroObjectID) =>
       heap'[last'.doc].ID = heap[last'.doc].ID]_vars

\* C3: for a new document e and an otherwise empty buffer, Persist(e);
\* Remove(e); Flush() issues no upsert for e and one delete for e, and Flush
\* returns no error when the driver answers that delete with ErrNotFound.
C3_DeleteWins ==
  \A e \in DOMAIN heap :
    (Returned /\ fl.deleteWins = e /\ DOMAIN fl.init = {e}
       /\ fl.result \notin DriverErrors)
    => (fl.nUpsert[e] = 0 /\ fl.nDelete[e] = 1 /\ fl.result = "ok")

\* C4: while the delete intent Remove(e) recorded is pending, no step of
\* Flush replaces it by a create or update intent, and a document the
\* application removed is not upserted by that Flush.
C4_DeleteHasPriority ==
  [][\A e \in DOMAIN heap :
       /\ (pc = "flush" /\ e \in byApp /\ e \in DOMAIN tasks /\ tasks[e] = del
             /\ e \in DOMAIN tasks') => tasks'[e] = del
       /\ (pc' = "flush" /\ e \in fl'.initByApp /\ fl'.init[e] = del)
             => fl'.nUpsert[e] = 0]_vars

\* C5: within one Flush call each document is upserted at most once and
\* deleted at most once.
C5_OncePerFlush ==
  \A e \in DOMAIN fl.nUpsert : fl.nUpsert[e] <= 1 /\ fl.nDelete[e] <= 1

\* C6: when Flush returns no error, every document reachable from a document
\* that had a pending create/update intent, through owning relations with
\* cascade persist or all whose target collection is registered, has a
\* non-zero identifier and was upserted under it (stated for a Flush that
\* deleted nothing, so that no delete undoes an upsert).
C6_CascadePersist ==
  (ReturnedNil /\ \A z \in DOMAIN fl.nDelete : fl.nDelete[z] = 0) =>
    \A x \in DOMAIN fl.init :
      fl.init[x] \in {insert, update} =>
        \A y \in Reachable(x, {"persist", "all"}, TRUE) :
          /\ heap[y].ID # zeroObjectID
          /\ IsStored(y, heap[y].ID)
          /\ fl.nUpsert[y] >= 1

\* C7: after Remove(owner); Flush() returning no error, the owner and every
\* document with a non-zero identifier that it holds, transitively, in a
\* relation field with cascade remove or all is absent from the store and
\* has a zero identifier (stated for the documents that were stored under
\* their identifier when Flush was called).
C7_CascadeRemove ==
  \A x \in DOMAIN heap :
    (ReturnedNil /\ DOMAIN fl.init = {x} /\ fl.init[x] = del) =>
      \A y \in {x} \cup Reachable(x, {"remove", "all"}, FALSE) :
        (fl.ids[y] # zeroObjectID /\ y \in fl.stored) =>
          heap[y].ID = zeroObjectID /\ ~IsStored(y, fl.ids[y])

\* C8: after Remove(e); Flush() returning no error on a stored document e,
\* the identifier of e is zero, the store holds no record under the prior
\* identifier and FindID of the prior identifier answers ErrNotFound.
C8_RemoveResetsIdentifier ==
  \A e \in DOMAIN heap :
    (ReturnedNil /\ DOMAIN fl.init = {e} /\ fl.init[e] = del /\ e \in fl.stored) =>
      /\ heap[e].ID = zeroObjectID
      /\ ~IsStored(e, fl.ids[e])
      /\ (found.type = heap[e].type /\ found.id = fl.ids[e]
            /\ found.err \notin DriverErrors) => found.err = ErrNotFound

C8_Witness ==
  \E e \in DOMAIN heap :
    /\ ReturnedNil /\ DOMAIN fl.init = {e} /\ fl.init[e] = del /\ e \in fl.stored
    /\ found.type = heap[e].type /\ found.id = fl.ids[e] /\ found.err = ErrNotFound

\* C9: when a driver call fails while Flush processes an intent, Flush
\* returns that error at once, every intent not yet popped is still in the
\* buffer, and the records written and deleted so far stay as they are.
C9_FirstErrorAbort ==
  [][(pc = "flush" /\ fl' # fl /\ fl'.answer # "ok") =>
       /\ pc' = "idle"
       /\ fl'.result = fl'.answer
       /\ database' = database
       /\ \A e \in DOMAIN tasks \ {fl'.popped} : e \in DOMAIN tasks']_vars

C9_Witness ==
  /\ pc = "idle" /\ fl.result \in DriverErrors
  /\ DOMAIN tasks # {}
  /\ \E d \in DOMAIN heap :
       d # fl.popped /\ fl.nUpsert[d] >= 1 /\ IsStored(d, heap[d].ID)

\* C10: Persist(e); Flush(); FindID(id(e)) into a fresh instance yields an
\* instance with the identifier of e and the scalar fields of e, for a new
\* document and for a stored document whose scalar fields changed.
C10_RoundTrip ==
  \A e \in DOMAIN heap :
    (ReturnedNil /\ e \in DOMAIN fl.init /\ fl.init[e] \in {insert, update}
       /\ e \in fl.initByApp
       /\ found.type = heap[e].type /\ found.id = heap[e].ID
       /\ found.err \notin DriverErrors) =>
      /\ found.err = "ok"
      /\ found.doc.ID = heap[e].ID
      /\ found.doc.Name = heap[e].Name

\* the record the store holds for document e
RecordOf(e) == database[<<collectionOf(e), heap[e].ID>>]

\* the identifiers of the documents a referenceMany field holds, in order
HeldIds(e, field) ==
  [j \in 1..Len(heap[e][field.name]) |-> heap[heap[e][field.name][j]].ID]

\* the relation fields of e that are stored on e's side and whose target
\* collection is registered
OwningFields(e) ==
  LET fields == getFieldsWithRelation(metaOf(heap, e))
  IN {fields[i] : i \in {j \in 1..Len(fields) :
        /\ fields[j].relation.mapped # "mappedBy"
        /\ findMetadataByCollectionName(fields[j].relation.targetDocument).found}}

\* C11: after Flush committed an update of a stored owner without error,
\* the record holds under the key of each owning referenceOne field the
\* identifier of the document the field holds, and no such key when the
\* field is nil; under the key of each owning referenceMany field it holds
\* the identifiers the field holds, in order (stated for a Flush that
\* deleted nothing).
C11_FullRewrite ==
  \A e \in DOMAIN heap :
    (ReturnedNil /\ e \in DOMAIN fl.init /\ fl.init[e] = update
       /\ e \in fl.initByApp /\ e \in fl.stored
       /\ (\A z \in DOMAIN fl.nDelete : fl.nDelete[z] = 0)
       /\ IsStored(e, heap[e].ID)) =>
      \A field \in OwningFields(e) :
        IF field.relation.relation = "referenceMany"
        THEN /\ field.key \in DOMAIN RecordOf(e)
             /\ RecordOf(e)[field.key] = HeldIds(e, field)
        ELSE IF heap[e][field.name] = Nil
        THEN field.key \notin DOMAIN RecordOf(e)
        ELSE /\ field.key \in DOMAIN RecordOf(e)
             /\ RecordOf(e)[field.key] = heap[heap[e][field.name]].ID

\* owner x alone had a pending create/update intent when Flush was called,
\* and field is an owning referenceMany field with cascade=persist that
\* holds distinct new documents which hold nothing themselves
OwnerOfNew(x, field) ==
  /\ DOMAIN fl.init = {x} /\ fl.init[x] \in {insert, update}
  /\ field.relation.relation = "referenceMany"
  /\ field.relation.cascade = "persist"
  /\ Cardinality(Held(x, field)) = Len(heap[x][field.name])
  /\ \A y \in Held(x, field) :
       /\ y # x
       /\ fl.ids[y] = zeroObjectID
       /\ y \notin fl.stored
       /\ CascadeTargets(y, {"persist", "all"}, TRUE) = {}

MappedFields(e) ==
  LET fields == getFieldsWithRelation(metaOf(heap, e))
  IN {fields[i] : i \in {j \in 1..Len(fields) :
                             fields[j].relation.mapped = "mappedBy"}}

\* the step is an iteration of Flush that pops a create/update intent
PersistStep ==
  /\ pc = "flush" /\ DOMAIN tasks # {}
  /\ fl'.popped \in DOMAIN tasks /\ tasks[fl'.popped] \in {insert, update}

\* the step is an iteration of Flush that pops a delete intent
RemoveStep ==
  /\ pc = "flush" /\ DOMAIN tasks # {}
  /\ fl'.popped \in DOMAIN tasks /\ tasks[fl'.popped] = del

\* the step leaves the pending intent of y, or its absence, as it was
SameIntent(y) ==
  /\ y \in DOMAIN tasks' <=> y \in DOMAIN tasks
  /\ y \in DOMAIN tasks => tasks'[y] = tasks[y]

\* C13: doPersist of a document writes no key for a relation field declared
\* mappedBy into the upserted record and enqueues no intent for the documents
\* that field holds, whatever the cascade of the field.
C13_MappedNotPersisted ==
  [][PersistStep =>
       LET d == fl'.popped
       IN \A field \in MappedFields(d) :
            /\ fl'.answer = "ok" =>
                 field.key \notin DOMAIN database'[<<collectionOf(d), heap'[d].ID>>]
            /\ \A y \in Held(d, field) \ CascadeTargets(d, {"persist", "all"}, TRUE) :
                 y # d => SameIntent(y)]_vars

C13_Witness ==
  \E d \in DOMAIN heap : \E field \in MappedFields(d) :
    /\ ReturnedNil /\ fl.nUpsert[d] >= 1 /\ IsStored(d, heap[d].ID)
    /\ field.relation.cascade = "all"
    /\ \E y \in Held(d, field) : fl.nUpsert[y] = 0 /\ y \notin DOMAIN fl.init

\* C14: doRemove of a document enqueues a delete intent only for documents
\* held in an owning relation field with cascade remove or all; the intent
\* of a document held in a mappedBy field is left as it was, whatever the
\* cascade of that field.
C14_RemoveCascadesOwningOnly ==
  [][RemoveStep =>
       LET d == fl'.popped
       IN \A y \in DOMAIN heap \ {d} :
            y \notin CascadeTargets(d, {"remove", "all"}, TRUE) => SameIntent(y)]_vars

\* C15: the relation resolver terminates for every stored graph and every
\* root batch, the empty batch included: no read ends with the recursion
\* of doResolveRelations going on without end.
C15_ResolverTerminates == found.err # "StackOverflow"

\* the instances wired into the relation fields of an instance of a read
WiredRefs(objs, o) ==
  LET fields == getFieldsWithRelation(metadatas[objs[o].type])
  IN UNION {IF fields[i].relation.relation = "referenceMany"
            THEN Range(objs[o][fields[i].name])
            ELSE {objs[o][fields[i].name]} \ {Nil} : i \in 1..Len(fields)}

\* C16: during one resolveRelations invocation fetchedDocuments never
\* rebinds an identifier and no identifier already in it is fetched again;
\* when the read returns, the table binds the identifier of every root to
\* the root instance, every wired reference is the instance the table binds
\* to its identifier, and no two instances of the read share an identifier.
C16_StructuralIdentity ==
  /\ ~found.refetch
  /\ ~found.rebound
  /\ found.err = "ok" =>
       /\ \A i \in 1..Len(found.roots) :
            LET id == getDocumentID(found.objs, found.roots[i])
            IN id \in DOMAIN found.fetched /\ found.fetched[id] = found.roots[i]
       /\ \A o \in DOMAIN found.objs : \A r \in WiredRefs(found.objs, o) :
            LET id == getDocumentID(found.objs, r)
            IN id \in DOMAIN found.fetched /\ found.fetched[id] = r
       /\ \A a, b \in DOMAIN found.objs :
            getDocumentID(found.objs, a) = getDocumentID(found.objs, b) => a = b

\* a read returned with a related instance wired back to a root instance
C16_Witness ==
  /\ found.err = "ok"
  /\ Len(found.roots) > 0
  /\ \E o \in DOMAIN found.objs \ Range(found.roots) :
       WiredRefs(found.objs, o) \cap Range(found.roots) # {}

\* the last call was a read, so the database is the one it read
JustRead == last.op \in {"FindID", "FindAll"} /\ found.err = "ok"

\* the identifiers of the instances wired into a referenceMany field
WiredIds(o, field) ==
  [i \in 1..Len(found.objs[o][field.name]) |->
     getDocumentID(found.objs, found.objs[o][field.name][i])]

\* the array stored under the key of the field in the record of a root
StoredIds(o, field) ==
  Refs(field, database[<<metadatas[found.type].targetDocument,
                         getDocumentID(found.objs, o)>>])

\* the owning referenceMany fields of the type read
OwningManyFields ==
  {f \in Range(getFieldsWithRelation(metadatas[found.type])) :
     f.relation.relation = "referenceMany" /\ f.relation.mapped # "mappedBy"}

\* C17: after a read whose stored identifiers all name records of the
\* target collection, the identifiers of the instances wired into an owning
\* referenceMany field of a root, in field order, are the array stored
\* under the key of the field.
C17_WiringOrder ==
  JustRead =>
    \A o \in Range(found.roots) : \A f \in OwningManyFields :
      (\A id \in Range(StoredIds(o, f)) :
          <<f.relation.targetDocument, id>> \in DOMAIN database)
        => WiredIds(o, f) = StoredIds(o, f)

\* the identifiers of the instances a relation field of an instance holds
WiredIdSet(o, field) ==
  LET value == found.objs[o][field.name]
      refs == IF field.relation.relation = "referenceMany" THEN Range(value)
              ELSE {value} \ {Nil}
  IN {getDocumentID(found.objs, r) : r \in refs}

\* the identifiers the database relates to an instance through a field: the
\* stored identifiers that name records of the target collection on the
\* owning side, the records whose owning field holds the identifier of the
\* instance on the mapped side
RelatedIds(o, field) ==
  LET meta == metadatas[found.objs[o].type]
      id == getDocumentID(found.objs, o)
      target == field.relation.targetDocument
      related == findMetadataByCollectionName(target)
      relatedField == findField(related.meta, field.relation.mappedField).field
  IN IF field.relation.mapped = "mappedBy"
     THEN {k[2] : k \in {key \in DOMAIN database :
              key[1] = target /\ id \in Range(Refs(relatedField, database[key]))}}
     ELSE {x \in Range(Refs(field, database[<<meta.targetDocument, id>>])) :
              <<target, x>> \in DOMAIN database}

\* the field of the instance holds what the database relates to it; a
\* mapped referenceOne field holds one of them at most
IsResolved(o, field) ==
  IF field.relation.relation = "referenceOne" /\ field.relation.mapped = "mappedBy"
  THEN WiredIdSet(o, field) \subseteq RelatedIds(o, field)
  ELSE WiredIdSet(o, field) = RelatedIds(o, field)

IsUnwired(o, field) == WiredIdSet(o, field) = {}

RelationFields(o) == Range(getFieldsWithRelation(metadatas[found.objs[o].type]))

\* C18: after a read of a non-empty root batch every relation field of a
\* root is resolved whatever its load; an instance fetched as a related
\* document has its load=eager relation fields resolved and its load=lazy
\* relation fields left unwired.
C18_LoadPolicy ==
  (JustRead /\ Len(found.roots) > 0) =>
    \A o \in DOMAIN found.objs : \A f \in RelationFields(o) :
      IF o \in Range(found.roots) \/ f.relation.load = "eager"
      THEN IsResolved(o, f)
      ELSE IsUnwired(o, f)

\* a read returned a root whose lazy field is wired to a related instance;
\* the eager field of the related instance is wired and its lazy field is
\* not, although the database relates a record to it
C18_Witness ==
  /\ JustRead
  /\ \E r \in Range(found.roots) : \E o \in DOMAIN found.objs \ Range(found.roots) :
       /\ \E f \in RelationFields(r) :
            /\ f.relation.load = "lazy"
            /\ getDocumentID(found.objs, o) \in WiredIdSet(r, f)
       /\ \E f \in RelationFields(o) :
            f.relation.load = "eager" /\ WiredIdSet(o, f) # {}
       /\ \E f \in RelationFields(o) :
            f.relation.load = "lazy" /\ IsUnwired(o, f) /\ RelatedIds(o, f) # {}

\* every user is stored with the identifiers of the users it is a friend of
CycleStored ==
  \A e \in DOMAIN heap :
    /\ heap[e].type = "User"
    /\ <<"users", heap[e].ID>> \in DOMAIN database
    /\ FriendOf.key \in DOMAIN database[<<"users", heap[e].ID>>]
    /\ database[<<"users", heap[e].ID>>][FriendOf.key] =
         [i \in 1..Len(heap[e].FriendOf) |-> heap[heap[e].FriendOf[i]].ID]

\* no instance occurs twice in a sequence of references
Once(refs) == \A i, j \in 1..Len(refs) : refs[i] = refs[j] => i = j

\* C19: after the cycle of three users was persisted and flushed, FindID of
\* any member returns without error, no instance holds a user twice in
\* Friends or in FriendOf, and FriendOf of the first of the root's Friends
\* holds a reference whose identifier is the root's.
C19_CycleScenario ==
  (last.op = "FindID" /\ Len(found.roots) = 1 /\ CycleStored) =>
    LET root == found.roots[1]
        friends == found.objs[root].Friends
    IN /\ found.err = "ok"
       /\ \A o \in DOMAIN found.objs :
            Once(found.objs[o].Friends) /\ Once(found.objs[o].FriendOf)
       /\ Len(friends) > 0
       /\ \E x \in Range(found.objs[friends[1]].FriendOf) :
            getDocumentID(found.objs, x) = getDocumentID(found.objs, root)

\* the mapped referenceMany fields of an instance
MappedManyFields(o) ==
  {f \in RelationFields(o) :
     f.relation.relation = "referenceMany" /\ f.relation.mapped = "mappedBy"}

\* the records of the target collection whose owning field, an array for
\* referenceMany and a scalar for referenceOne, holds the identifier
Referring(field, id) ==
  LET target == findMetadataByCollectionName(field.relation.targetDocument).meta
      owning == findField(target, field.relation.mappedField).field
  IN {key \in DOMAIN database :
        /\ key[1] = field.relation.targetDocument
        /\ owning.key \in DOMAIN database[key]
        /\ IF owning.relation.relation = "referenceMany"
           THEN \E i \in 1..Len(database[key][owning.key]) :
                  database[key][owning.key][i] = id
           ELSE database[key][owning.key] = id}

\* C20: after a read, a mapped referenceMany field of a root holds instances
\* of the target type only, and their identifiers are exactly those of the
\* records of the target collection whose owning field holds the identifier
\* of the root.
C20_MappedManyRead ==
  JustRead =>
    \A o \in Range(found.roots) : \A f \in MappedManyFields(o) :
      /\ \A i \in 1..Len(found.objs[o][f.name]) :
           metadatas[found.objs[found.objs[o][f.name][i]].type].targetDocument
             = f.relation.targetDocument
      /\ {getDocumentID(found.objs, found.objs[o][f.name][i]) :
            i \in 1..Len(found.objs[o][f.name])}
           = {key[2] : key \in Referring(f, getDocumentID(found.objs, o))}

\* a read wired a mapped referenceMany field of a root while the target
\* collection also holds a record that does not refer to the root
C20_Witness ==
  /\ JustRead
  /\ \E o \in Range(found.roots) : \E f \in MappedManyFields(o) :
       /\ Len(found.objs[o][f.name]) > 0
       /\ \E key \in DOMAIN database :
            /\ key[1] = f.relation.targetDocument
            /\ key \notin Referring(f, getDocumentID(found.objs, o))

\* ------------------------------------------------------------ C21
\* the definition names and the relation parameters getTypeMetadatas knows
KnownNames == {"id", "omitempty", "index", "composite", "referencemany", "referenceone"}
KnownParameters == {"mappedby", "inversedby", "targetdocument", "cascade", "storeid", "load"}
RelationNames == {"referencemany", "referenceone"}

\* the ODM tag of the field has an unknown definition name, or a relation
\* definition with an unknown parameter
UnknownIn(structField) ==
  \E i \in DOMAIN structField.definitions :
    LET definition == structField.definitions[i]
    IN \/ ToLower(definition.Name) \notin KnownNames
       \/ /\ ToLower(definition.Name) \in RelationNames
          /\ \E j \in DOMAIN definition.Parameters :
               ToLower(definition.Parameters[j].Key) \notin KnownParameters

\* the storage key "-" or the ODM tag "-" hides the field from the mapper
Ignored(structField) == structField.bson[1] = "-" \/ structField.odm = "-"

HasUnknown(Type) == \E i \in DOMAIN Type.fields : UnknownIn(Type.fields[i])
HasVisibleUnknown(Type) ==
  \E i \in DOMAIN Type.fields :
    UnknownIn(Type.fields[i]) /\ ~Ignored(Type.fields[i])

Rejected == last'.err = ErrInvalidAnnotation /\ metadatas' = metadatas

\* C21 as stated: Register of a type whose ODM tag has an unknown definition
\* name or an unknown relation parameter returns InvalidAnnotation and leaves
\* the registry as it was
C21_AnyTagRejected ==
  [][\A c \in Collections, T \in Declared :
       (Register(c, T) /\ HasUnknown(T)) => Rejected]_vars

\* C21, amended: Register of a pointer to a struct with a field that is not
\* ignored and whose ODM tag has an unknown definition name or an unknown
\* relation parameter returns InvalidAnnotation and leaves the registry as it
\* was; the tag of an ignored field is never parsed
C21_AnnotationRejection ==
  [][\A c \in Collections, T \in Declared :
       (Register(c, T) /\ T.kind = "ptr to struct" /\ HasVisibleUnknown(T))
         => Rejected]_vars

\* Register of the type with referenceOne(unknownParam=x) has returned
C21_Witness ==
  /\ last.op = "Register"
  /\ last.type = MistypedType.type
  /\ last.err = ErrInvalidAnnotation
  /\ MistypedType.type \notin DOMAIN metadatas

\* ------------------------------------------------------------ C22
\* C22: no two registered types have the same collection name, so that the
\* lookup of a type by its collection name finds at most one type
C22_UniqueCollections ==
  \A t1 \in DOMAIN metadatas, t2 \in DOMAIN metadatas :
    t1 # t2 => metadatas[t1].targetDocument # metadatas[t2].targetDocument

\* ------------------------------------------------------------ C23
\* the step is a call of Register
IsRegister == \E c \in Collections, T \in Declared : Register(c, T)

\* the type is in the registry under the collection name
RegisteredAs(c, T) ==
  /\ T.kind = "ptr to struct"
  /\ T.type \in DOMAIN metadatas
  /\ metadatas[T.type].targetDocument = c

\* C23: Register of a type under the collection name it is registered under
\* leaves the registry as it is, and a step of Persist, Flush, FindID or
\* FindAll changes no entry of the registry
C23_RegistryStability ==
  [][/\ \A c \in Collections, T \in Declared :
          (Register(c, T) /\ RegisteredAs(c, T)) => metadatas' = metadatas
     /\ ~IsRegister => metadatas' = metadatas]_vars

\* Register of Doc under "docs", where it was registered, has returned
C23_Witness ==
  /\ last.op = "Register"
  /\ last.type = DocType.type
  /\ last.collection = "docs"
  /\ last.err = "ok"
  /\ metadatas[DocType.type] = Metadata("docs", <<IdByKey, NameField>>)
  /\ \E key \in DOMAIN database : key[1] = "docs"

\* ------------------------------------------------------------ C24
\* the fields of the registered type that are marked as the identifier
IdentifierFields(t) ==
  {i \in DOMAIN metadatas[t].fields :
     metadatas[t].fields[i].name = metadatas[t].idField}

\* C24: every registered type has exactly one identifier field
C24_OneIdentifier ==
  \A t \in DOMAIN metadatas : Cardinality(IdentifierFields(t)) = 1

\* ------------------------------------------------------------ C25
\* the owning referenceOne fields of the type read
OwningOneFields ==
  {f \in Range(getFieldsWithRelation(metadatas[found.type])) :
     f.relation.relation = "referenceOne" /\ f.relation.mapped # "mappedBy"}

\* every identifier stored under the key of the field names a record of the
\* target collection
NoDanglingOne(f) ==
  \A key \in DOMAIN database :
    key[1] = metadatas[found.type].targetDocument =>
      \A id \in Range(Refs(f, database[key])) :
        <<f.relation.targetDocument, id>> \in DOMAIN database

\* FindAll returned, or faulted, on a type with an owning referenceOne field
\* whose stored identifiers all name records
ReadBatch ==
  /\ last.op = "FindAll"
  /\ found.op = "FindAll"
  /\ found.err \in {"ok", "panic"}
  /\ OwningOneFields # {}
  /\ \A f \in OwningOneFields : NoDanglingOne(f)

\* C25: the resolution of an owning referenceOne field over a batch of roots
\* completes without fault, every root with a stored identifier ends with its
\* field referencing the document with that identifier, and every root
\* without one keeps its field unset
C25_BatchWiring ==
  ReadBatch =>
    /\ found.err = "ok"
    /\ \A o \in Range(found.roots) : \A f \in OwningOneFields :
         WiredIdSet(o, f) = Range(StoredIds(o, f))

\* ------------------------------------------------------------ C26
\* the keys of the composite fields of a type, in field order
CompositeKeys(meta) ==
  LET at == {i \in DOMAIN meta.fields : meta.fields[i].composite}
      nth(k) == CHOOSE i \in at : Cardinality({j \in at : j < i}) = k - 1
  IN [k \in 1..Cardinality(at) |-> meta.fields[nth(k)].key]

\* one index per indexed field, with its uniqueness flag, and one unique
\* index over the composite keys if there are any
ExpectedIndexes(meta) ==
  {[Key |-> <<meta.fields[i].key>>, Unique |-> meta.fields[i].unique] :
     i \in {j \in DOMAIN meta.fields : meta.fields[j].index}}
  \cup (IF Len(CompositeKeys(meta)) > 0
        THEN {[Key |-> CompositeKeys(meta), Unique |-> TRUE]} ELSE {})

\* the indexes ensured on the collection of a document
EnsuredOn(ensured, document) ==
  {x.index : x \in {y \in ensured : y.collection = collectionOf(document)}}

UncascadedFields(e) ==
  {f \in Range(getFieldsWithRelation(metaOf(heap, e))) :
     f.relation.mapped # "mappedBy" /\ f.relation.cascade \in {"", "remove"}}

\* the documents a relation field of a document holds, in field order
RelatedOf(h, e, f) ==
  IF f.relation.relation = "referenceMany" THEN h[e][f.name]
  ELSE IF h[e][f.name] = Nil THEN <<>> ELSE <<h[e][f.name]>>

\* what doPersist writes under the key of the field
WrittenIds(h, e, f) ==
  LET ids == [i \in 1..Len(RelatedOf(h, e, f)) |-> h[RelatedOf(h, e, f)[i]].ID]
  IN IF f.relation.relation = "referenceMany" THEN ids ELSE ids[1]

CascadedDeletes(h, e) ==
  UNION {{r \in Range(RelatedOf(h, e, f)) : h[r].ID # zeroObjectID} :
           f \in {g \in Range(getFieldsWithRelation(metaOf(h, e))) :
                    g.relation.cascade \in {"all", "remove"}}}

\* C28: when the delete of a document fails in Flush, the identifier of the
\* document keeps its value, Flush returns the error, and the delete tasks
\* enqueued by cascade for its related documents stay in the buffer
C28_FailedDelete ==
  [][\A e \in DOMAIN heap :
       (FlushRemove(e) /\ fl'.answer # "ok") =>
         /\ heap'[e].ID = heap[e].ID
         /\ heap' = heap
         /\ database' = database
         /\ pc' = "idle"
         /\ fl'.result = fl'.answer
         /\ \A r \in CascadedDeletes(heap, e) :
              r \in DOMAIN tasks' /\ tasks'[r] = del
         /\ \A d \in DOMAIN tasks \ {e} : d \in DOMAIN tasks']_vars

\* the delete of a stored document failed in Flush: the document keeps its
\* identifier and its record, and the delete of its related document is
\* pending
C28_Witness ==
  /\ pc = "idle"
  /\ fl.result \in DriverErrors
  /\ fl.popped \in DOMAIN heap
  /\ fl.nDelete[fl.popped] > 0
  /\ heap[fl.popped].ID # zeroObjectID
  /\ <<collectionOf(fl.popped), heap[fl.popped].ID>> \in DOMAIN database
  /\ \E r \in CascadedDeletes(heap, fl.popped) :
       r # fl.popped /\ r \in DOMAIN tasks /\ tasks[r] = del

\* ------------------------------------------------------------ C29
\* the loop of Flush cannot go on: NewObjectId was called MaxId times
OutOfIds == pc = "flush" /\ ~ENABLED FlushStep

\* C29: Flush terminates, by returning nil with an empty buffer or by
\* returning an error, also when cascade=persist or cascade=all relations
\* form a cycle
C29_FlushTerminates == (pc = "flush") ~> (pc = "idle" \/ OutOfIds)

\* ------------------------------------------------------------ C30
\* the buffer held delete tasks only when Flush was called
DeleteOnly == \A d \in DOMAIN fl.init : fl.init[d] = del

\* C30: a Flush whose buffer holds delete tasks only terminates, also when
\* cascade=remove or cascade=all relations form a cycle between distinct
\* documents, and a document deleted in that Flush is not enqueued again
C30_DeleteCycle ==
  /\ [](pc = "flush" /\ DeleteOnly =>
          \A d \in DOMAIN heap : fl.nDelete[d] > 0 => d \notin DOMAIN tasks)
  /\ (pc = "flush" /\ DeleteOnly) ~> (pc = "idle")

\* the documents with the identifiers they had when Flush was called
HeapAtBegin == [x \in DOMAIN heap |-> [heap[x] EXCEPT !.ID = fl.ids[x]]]

\* a delete-only Flush returned nil after it deleted two documents that
\* refer to each other by a cascade=all reference
C30_Witness ==
  /\ pc = "idle"
  /\ fl.result = "ok"
  /\ DeleteOnly
  /\ \E d \in DOMAIN heap : \E r \in CascadedDeletes(HeapAtBegin, d) :
       /\ r # d
       /\ heap[r].Rel = d
       /\ fl.nDelete[d] = 1 /\ fl.nDelete[r] = 1
       /\ fl.stored = {d, r}
       /\ DOMAIN database = {}

\* ------------------------------------------------------------ C32
\* the identifier the upsert of a document is keyed by: Map["_id"] after
\* doPersist projected the document
UpsertKey(e) ==
  MapID(doPersist(heap, pop(tasks, e), byApp \ {e}, nextId, e).Map)

\* C32: every upsert Flush issues is keyed by a non-zero identifier, also
\* for a document that was deleted earlier in the same Flush and enqueued
\* again by the cascade of an owner
C32_UpsertKeyed ==
  [][\A e \in DOMAIN heap :
       (FlushPersist(e) /\ fl'.answer \notin DriverErrors) =>
         /\ UpsertKey(e) # zeroObjectID
         /\ fl'.answer = "ok"
         /\ <<collectionOf(e), UpsertKey(e)>> \in DOMAIN database']_vars

\* a document stored under one identifier was deleted in this Flush, given a
\* new identifier by the doPersist of its owner and upserted under it
C32_Witness ==
  /\ pc = "flush"
  /\ fl.answer = "ok"
  /\ fl.popped \in DOMAIN heap
  /\ fl.popped \in fl.stored
  /\ fl.nDelete[fl.popped] > 0
  /\ fl.nUpsert[fl.popped] > 0
  /\ heap[fl.popped].ID \notin {zeroObjectID, fl.ids[fl.popped]}
  /\ <<collectionOf(fl.popped), heap[fl.popped].ID>> \in DOMAIN database
  /\ <<collectionOf(fl.popped), fl.ids[fl.popped]>> \notin DOMAIN database

\* ------------------------------------------------------------ C31
\* the unit of work of the state
UnitOfWork ==
  [heap |-> heap, tasks |-> tasks, byApp |-> byApp, database |-> database,
   nextId |-> nextId]

\* what a Flush that returned nil left behind, told without the values of
\* the identifiers NewObjectId made: the documents that kept the identifier
\* they had, the documents without identifier, the documents whose record is
\* held under their identifier, and the records that were held before and
\* are still held
Outcome(u, v) ==
  [kept |-> {e \in DOMAIN v.heap : v.heap[e].ID = u.heap[e].ID},
   zero |-> {e \in DOMAIN v.heap : v.heap[e].ID = zeroObjectID},
   stored |-> Stored(v.heap, v.database),
   held |-> DOMAIN u.database \cap DOMAIN v.database]

\* C31: for the buffer and the documents of a state in which Flush runs,
\* every order of popping the tasks in which Flush returns nil leaves the
\* same store and the same identifiers
C31_DrainOrder ==
  pc = "flush" =>
    Cardinality({Outcome(UnitOfWork, v) : v \in drained(UnitOfWork, {})}) <= 1

\* ------------------------------------------------------------ C33
\* the documents the doPersist of a document enqueues: the documents of its
\* owning cascade=persist and cascade=all fields
CascadedPersists(h, e) ==
  UNION {Range(RelatedOf(h, e, f)) :
           f \in {g \in Range(getFieldsWithRelation(metaOf(h, e))) :
                    g.relation.mapped # "mappedBy"
                    /\ g.relation.cascade \in {"all", "persist"}}}

\* the step is an iteration of Flush on document d that enqueues document e
Cascades(d, e) ==
  \/ FlushRemove(d) /\ e \in CascadedDeletes(heap, d)
  \/ FlushPersist(d) /\ e \in CascadedPersists(heap, d)

\* C33: when Flush returns an error raised while it processed a document,
\* the task of that document is no longer in the buffer unless its own
\* cascade enqueued it, and a document without task gets one only by
\* Persist, by Remove or by a cascade: a following Flush does not retry it
C33_FailedIntentDropped ==
  [][\A e \in DOMAIN heap :
       /\ ((FlushRemove(e) \/ FlushPersist(e)) /\ fl'.answer # "ok") =>
            /\ pc' = "idle"
            /\ e \in DOMAIN tasks' => Cascades(e, e)
       /\ (e \notin DOMAIN tasks /\ e \in DOMAIN tasks') =>
            \/ Persist(e)
            \/ Remove(e)
            \/ \E d \in DOMAIN heap : Cascades(d, e)]_vars

\* Flush returned a driver error raised on a document that refers to another
\* one: its task is gone, the task its cascade enqueued is pending
C33_Witness ==
  /\ pc = "idle"
  /\ fl.result \in DriverErrors
  /\ fl.popped \in DOMAIN fl.init
  /\ fl.popped \notin DOMAIN tasks
  /\ DOMAIN tasks # {}

====
